---- MODULE Spec2Model ----
(***************************************************************************)
(* Ruptela packet decoder (package ruptela_parser): the hex decoding, the  *)
(* envelope checks, the record and IO-element loops of                     *)
(* ParseRuptelaPacketWithOptions, one step per cursor read, for a set of   *)
(* independent decode calls.                                               *)
(*                                                                         *)
(* Conventions.  A Go string is a sequence of one-character strings, a     *)
(* []byte a sequence of numbers 0..255.  Go offsets are 0-based, TLA+      *)
(* sequences 1-based: data[i] of the code is data[i + 1] here.  uint16     *)
(* arithmetic is taken modulo 2^16.  A uint32 is kept as two 16-bit halves *)
(* <<hi, lo>> and a uint64 as four 16-bit limbs, most significant first,   *)
(* because TLC's integers are 32 bits wide.                                *)
(***************************************************************************)
EXTENDS Integers, Sequences, FiniteSets, TLC

(***************************************************************************)
(* Bit operations on naturals.                                             *)
(***************************************************************************)
\* a ^ b on uint16 values, bit by bit
Xor(a, b) ==
    LET X(p) == (((a \div p) + (b \div p)) % 2) * p
    IN  X(1) + (X(2) + (X(4) + (X(8) + (X(16) + (X(32) + (X(64) + (X(128)
        + (X(256) + (X(512) + (X(1024) + (X(2048) + (X(4096) + (X(8192)
        + (X(16384) + X(32768)))))))))))))))

\* binary.BigEndian.Uint16
Uint16(bs) == bs[1] * 256 + bs[2]

\* binary.BigEndian.Uint32, as <<high half, low half>>
Uint32(bs) == << bs[1] * 256 + bs[2], bs[3] * 256 + bs[4] >>

(***************************************************************************)
(* Checksum engine.                                                        *)
(***************************************************************************)
crc16Table == <<
    0, 4489, 8978, 12955, 17956, 22445, 25910, 29887,
    35912, 40385, 44890, 48851, 51820, 56293, 59774, 63735,
    4225, 264, 13203, 8730, 22181, 18220, 30135, 25662,
    40137, 36160, 49115, 44626, 56045, 52068, 63999, 59510,
    8450, 12427, 528, 5017, 26406, 30383, 17460, 21949,
    44362, 48323, 36440, 40913, 60270, 64231, 51324, 55797,
    12675, 8202, 4753, 792, 30631, 26158, 21685, 17724,
    48587, 44098, 40665, 36688, 64495, 60006, 55549, 51572,
    16900, 21389, 24854, 28831, 1056, 5545, 10034, 14011,
    52812, 57285, 60766, 64727, 34920, 39393, 43898, 47859,
    21125, 17164, 29079, 24606, 5281, 1320, 14259, 9786,
    57037, 53060, 64991, 60502, 39145, 35168, 48123, 43634,
    25350, 29327, 16404, 20893, 9506, 13483, 1584, 6073,
    61262, 65223, 52316, 56789, 43370, 47331, 35448, 39921,
    29575, 25102, 20629, 16668, 13731, 9258, 5809, 1848,
    65487, 60998, 56541, 52564, 47595, 43106, 39673, 35696,
    33800, 38273, 42778, 46739, 49708, 54181, 57662, 61623,
    2112, 6601, 11090, 15067, 20068, 24557, 28022, 31999,
    38025, 34048, 47003, 42514, 53933, 49956, 61887, 57398,
    6337, 2376, 15315, 10842, 24293, 20332, 32247, 27774,
    42250, 46211, 34328, 38801, 58158, 62119, 49212, 53685,
    10562, 14539, 2640, 7129, 28518, 32495, 19572, 24061,
    46475, 41986, 38553, 34576, 62383, 57894, 53437, 49460,
    14787, 10314, 6865, 2904, 32743, 28270, 23797, 19836,
    50700, 55173, 58654, 62615, 32808, 37281, 41786, 45747,
    19012, 23501, 26966, 30943, 3168, 7657, 12146, 16123,
    54925, 50948, 62879, 58390, 37033, 33056, 46011, 41522,
    23237, 19276, 31191, 26718, 7393, 3432, 16371, 11898,
    59150, 63111, 50204, 54677, 41258, 45219, 33336, 37809,
    27462, 31439, 18516, 23005, 11618, 15595, 3696, 8185,
    63375, 58886, 54429, 50452, 45483, 40994, 37561, 33584,
    31687, 27214, 22741, 18780, 15843, 11370, 7921, 3960
>>

\* a faulty loop body: the checksum is not shifted
CRC16StepNoShift(crc, byte) ==
    Xor(crc, crc16Table[(Xor(crc, byte) % 256) + 1])

\* one iteration of the loop, line 109
CRC16Step(crc, byte) ==
    Xor(crc \div 256, crc16Table[(Xor(crc, byte) % 256) + 1])

\* the loop of lines 108-110 over bytes[lo..hi] (lo <= hi), entered with crc.
\* The bytes are folded left to right; the range is halved, and the left
\* half's result tested before it is passed on, only so that TLC evaluates
\* it first and its evaluation stack stays shallow.
RECURSIVE CRC16Range(_, _, _, _)
CRC16Range(bytes, lo, hi, crc) ==
    IF lo = hi THEN CRC16Step(crc, bytes[lo])
    ELSE LET left == CRC16Range(bytes, lo, (lo + hi) \div 2, crc)
         IN  IF left >= 0
             THEN CRC16Range(bytes, ((lo + hi) \div 2) + 1, hi, left)
             ELSE left

CRC16CCITT(bytes) ==
    IF Len(bytes) = 0 THEN 0 ELSE CRC16Range(bytes, 1, Len(bytes), 0)

(***************************************************************************)
(* Identifier codec.  imei = imei*10 + d on a uint64: four 16-bit limbs,   *)
(* the carry out of the top limb is dropped (wrap modulo 2^64).            *)
(***************************************************************************)
\* a faulty accumulator: imei = imei*10 + d on 48 bits
MulAdd10Narrow(v, d) ==
    LET l4 == v[4] * 10 + d
        l3 == v[3] * 10 + (l4 \div 65536)
        l2 == v[2] * 10 + (l3 \div 65536)
    IN  << 0, l2 % 65536, l3 % 65536, l4 % 65536 >>

MulAdd10(v, d) ==
    LET l4 == v[4] * 10 + d
        l3 == v[3] * 10 + (l4 \div 65536)
        l2 == v[2] * 10 + (l3 \div 65536)
        l1 == v[1] * 10 + (l2 \div 65536)
    IN  << l1 % 65536, l2 % 65536, l3 % 65536, l4 % 65536 >>

RECURSIVE decodeIMEILoop(_, _, _)
decodeIMEILoop(bcd, i, imei) ==
    IF i >= 8 THEN imei
    ELSE LET high == (bcd[i + 1] \div 16) % 16
             low  == bcd[i + 1] % 16
         IN  IF i = 0 /\ high = 0
             THEN decodeIMEILoop(bcd, i + 1, MulAdd10(imei, low))
             ELSE decodeIMEILoop(bcd, i + 1, MulAdd10(MulAdd10(imei, high), low))

decodeIMEI(bcd) == decodeIMEILoop(bcd, 0, <<0, 0, 0, 0>>)

(***************************************************************************)
(* encoding/hex.                                                           *)
(***************************************************************************)
HexDigits == << "0", "1", "2", "3", "4", "5", "6", "7",
                "8", "9", "A", "B", "C", "D", "E", "F" >>

\* hex.fromHexChar: the digit's value, or -1 for a character that is no hex digit
fromHexChar(ch) ==
    CASE ch = "0" -> 0  [] ch = "1" -> 1  [] ch = "2" -> 2  [] ch = "3" -> 3
      [] ch = "4" -> 4  [] ch = "5" -> 5  [] ch = "6" -> 6  [] ch = "7" -> 7
      [] ch = "8" -> 8  [] ch = "9" -> 9
      [] ch = "A" -> 10 [] ch = "B" -> 11 [] ch = "C" -> 12
      [] ch = "D" -> 13 [] ch = "E" -> 14 [] ch = "F" -> 15
      [] ch = "a" -> 10 [] ch = "b" -> 11 [] ch = "c" -> 12
      [] ch = "d" -> 13 [] ch = "e" -> 14 [] ch = "f" -> 15
      [] OTHER -> -1

\* hex.DecodeString on a string of even length
hexDecodeString(s) ==
    [ err   |-> \E i \in 1..Len(s) : fromHexChar(s[i]) = -1,
      bytes |-> [ i \in 1..(Len(s) \div 2) |->
                    fromHexChar(s[2 * i - 1]) * 16 + fromHexChar(s[2 * i]) ] ]

\* the characters of a string, and the string of a sequence of characters
Chars(s) == [ i \in 1..Len(s) |-> SubSeq(s, i, i) ]

RECURSIVE StringRange(_, _, _)
StringRange(cs, lo, hi) ==
    IF lo = hi THEN cs[lo]
    ELSE StringRange(cs, lo, (lo + hi) \div 2)
            \o StringRange(cs, ((lo + hi) \div 2) + 1, hi)

String(cs) == IF Len(cs) = 0 THEN "" ELSE StringRange(cs, 1, Len(cs))

\* the characters of strings.ToUpper(hex.EncodeToString(bs))
hexChars(bs) ==
    [ i \in 1..(2 * Len(bs)) |->
        IF i % 2 = 1 THEN HexDigits[(bs[(i + 1) \div 2] \div 16) + 1]
                     ELSE HexDigits[(bs[i \div 2] % 16) + 1] ]

\* a faulty rendering: hex.EncodeToString(bs) without strings.ToUpper
hexEncodeLower(bs) ==
    LET lower == << "0", "1", "2", "3", "4", "5", "6", "7",
                    "8", "9", "a", "b", "c", "d", "e", "f" >>
    IN  String([ i \in 1..(2 * Len(bs)) |->
                   IF i % 2 = 1 THEN lower[(bs[(i + 1) \div 2] \div 16) + 1]
                                ELSE lower[(bs[i \div 2] % 16) + 1] ])

\* strings.ToUpper(hex.EncodeToString(bs))
hexEncodeUpper(bs) == String(hexChars(bs))

\* a faulty strip: only the first space is removed
stripFirstSpace(s) ==
    LET cs == Chars(s)
        spaces == { i \in 1..Len(cs) : cs[i] = " " }
    IN  IF spaces = {} THEN cs
        ELSE LET k == CHOOSE i \in spaces : \A m \in spaces : i <= m
             IN  SubSeq(cs, 1, k - 1) \o SubSeq(cs, k + 1, Len(cs))

\* the characters of strings.ReplaceAll(s, " ", "")
stripSpaces(s) == SelectSeq(Chars(s), LAMBDA ch : ch # " ")

(***************************************************************************)
(* Values of the decoder.                                                  *)
(***************************************************************************)
\* int16(u), int32(<<hi, lo>>): two's complement
Int16(u) == IF u >= 32768 THEN u - 65536 ELSE u
Int32(w) == << Int16(w[1]), w[2] >>

\* &RuptelaPacket{}
ZeroPacket ==
    [ Length |-> 0, CRC |-> 0, IMEI |-> <<0, 0, 0, 0>>, CommandID |-> 0,
      RecordsFlag |-> 0, NumRecords |-> 0, Records |-> <<>> ]

\* RuptelaRecord{}.  RecordExtension is a *uint8: <<>> is nil, <<v>> points to v.
\* Timestamp is the Unix second count; Longitude, Latitude (1e-7 degree),
\* Altitude (0.1 m), Angle (0.01 degree) and HDOP (0.1) are kept as the
\* integer numerator of the float64 the code stores.
ZeroRecord ==
    [ Timestamp |-> <<0, 0>>, TimestampExtension |-> 0, RecordExtension |-> <<>>,
      Priority |-> 0, Longitude |-> <<0, 0>>, Latitude |-> <<0, 0>>,
      Altitude |-> 0, Angle |-> 0, Satellites |-> 0, Speed |-> 0, HDOP |-> 0,
      EventIO |-> 0, IOElements |-> <<>> ]

\* the width classes of the element loop: []int{1, 2, 4, 8}
Sizes == << 1, 2, 4, 8 >>

\* error values.  Message is the format string, Args its arguments, Inner the
\* wrapped readBytes error <<need, have, offset>> (empty when none is wrapped).
\* A ValidationError has no Offset (-1 here), a ParseError no Field.
NilError ==
    [ type |-> "nil", Field |-> "", Value |-> 0, Message |-> "",
      Args |-> <<>>, Inner |-> <<>>, Offset |-> -1 ]

ParseError(msg, args, inner, offset) ==
    [ type |-> "ParseError", Field |-> "", Value |-> 0, Message |-> msg,
      Args |-> args, Inner |-> inner, Offset |-> offset ]

ValidationError(field, value, msg, args) ==
    [ type |-> "ValidationError", Field |-> field, Value |-> value, Message |-> msg,
      Args |-> args, Inner |-> <<>>, Offset |-> -1 ]

DefaultParserOptions ==
    [ ValidateCRC |-> TRUE, ValidateLength |-> TRUE, MaxPacketSize |-> 2048,
      MaxRecords |-> 100, MaxIOElements |-> 1000, EnableDebug |-> FALSE,
      SkipValidation |-> FALSE ]

\* a Go slice expression d[lo:hi]: it panics unless 0 <= lo <= hi <= len(d)
\* (the limit is cap(d) in Go; every slice expression of the decoder is
\* guarded by len(d) or has lo > hi when it panics, so len(d) decides here)
Slice(d, lo, hi) ==
    [ panic |-> ~(0 <= lo /\ lo <= hi /\ hi <= Len(d)),
      bytes |-> IF 0 <= lo /\ lo <= hi /\ hi <= Len(d)
                THEN SubSeq(d, lo + 1, hi) ELSE <<>> ]

(***************************************************************************)
(* State: one entry per decode call in progress (the domain of pc).        *)
(***************************************************************************)
VARIABLES
    hexStr,      \* the hexStr argument
    opts,        \* the opts argument: <<>> is nil, <<o>> points to o
    data,        \* the decoded buffer
    idx,         \* the cursor offset
    pkt,         \* the packet being filled
    rec,         \* record loop index
    r,           \* the record being filled
    size,        \* position in Sizes of the width class being read (1..4)
    ioCount,     \* declared element count of the current width class
    j,           \* element loop index
    ioID,        \* identifier of the element being read
    b,           \* value byte loop index
    ioValBytes,  \* value bytes of the element being read
    pc,          \* position of the call in ParseRuptelaPacketWithOptions
    ret,         \* what the call returned
    fn           \* a call of CRC16CCITT by itself: its argument and locals

decodeVars == << hexStr, opts, data, idx, pkt, rec, r, size, ioCount, j, ioID,
                 b, ioValBytes, pc, ret >>

vars == << decodeVars, fn >>

args     == << hexStr, opts >>
ioLocals == << ioCount, j, ioID, b, ioValBytes >>

Calls == DOMAIN pc

\* the options in force after line 169-171
O(c) == opts[c][1]

NoReturn == [ pktNil |-> TRUE, pkt |-> ZeroPacket, err |-> NilError ]

\* no call of CRC16CCITT by itself
NoFunction == [ data |-> << >>, i |-> 0, crc |-> 0, pc |-> "none" ]

\* return nil, err
ReturnError(c, e) ==
    /\ pc' = [pc EXCEPT ![c] = "returned"]
    /\ ret' = [ret EXCEPT ![c] = [ pktNil |-> TRUE, pkt |-> ZeroPacket, err |-> e ]]

\* a run-time panic: the deferred recover at lines 163-167 panics again, so
\* the call does not return
Panic(c) ==
    /\ pc' = [pc EXCEPT ![c] = "panicked"]
    /\ UNCHANGED ret

\* a faulty cursor: a read that would end exactly at the end of the buffer
\* is refused
readBytesStrict(c, n) ==
    IF idx[c] + n >= Len(data[c])
    THEN [ err |-> TRUE, panic |-> FALSE, result |-> <<>>, idx |-> idx[c],
           inner |-> << n, Len(data[c]) - idx[c], idx[c] >> ]
    ELSE [ err |-> FALSE, panic |-> FALSE,
           result |-> Slice(data[c], idx[c], idx[c] + n).bytes,
           idx |-> idx[c] + n, inner |-> <<>> ]

\* readBytes (lines 214-225): the bytes read and the new offset, or the error
readBytes(c, n) ==
    IF idx[c] + n > Len(data[c])
    THEN [ err |-> TRUE, panic |-> FALSE, result |-> <<>>, idx |-> idx[c],
           inner |-> << n, Len(data[c]) - idx[c], idx[c] >> ]
    ELSE [ err |-> FALSE, panic |-> Slice(data[c], idx[c], idx[c] + n).panic,
           result |-> Slice(data[c], idx[c], idx[c] + n).bytes,
           idx |-> IF Slice(data[c], idx[c], idx[c] + n).panic
                   THEN idx[c] ELSE idx[c] + n,
           inner |-> <<>> ]

\* a faulty error path: the error of a failed read carries offset 0, as the
\* errors of the checks before the cursor do
ReadAbortsAtZero(c, rb, msg, fargs) ==
    IF rb.panic THEN Panic(c)
    ELSE ReturnError(c, ParseError(msg, fargs, rb.inner, 0))

\* the "if err != nil { return nil, &ParseError{...} }" after a readBytes call
\* (Offset is idx, which a failed read leaves where it was)
ReadAborts(c, rb, msg, fargs) ==
    IF rb.panic THEN Panic(c)
    ELSE ReturnError(c, ParseError(msg, fargs, rb.inner, rb.idx))

(***************************************************************************)
(* ParseRuptelaPacketWithOptions, lines 161-553.                           *)
(***************************************************************************)
\* Faulty variants of the guards below; each of them breaks a property of
\* the decoder.
\* a minimum of 12 bytes
PacketTooShortBy1(d) == Len(d) < 12

\* a size limit that is not switched off by a value of 0 or below
PacketTooLargeAlways(c) ==
    /\ ~O(c).SkipValidation
    /\ Len(data[c]) > O(c).MaxPacketSize

\* a length check against the byte count minus the length field only
LengthMismatchWithCRC(c, length) ==
    /\ ~O(c).SkipValidation
    /\ O(c).ValidateLength
    /\ length # Len(data[c]) - 2

\* a length check that SkipValidation does not bypass
LengthMismatchNoSkip(c, length) ==
    /\ O(c).ValidateLength
    /\ length # Len(data[c]) - 4

\* a checksum check that ValidateCRC does not switch off
CRCValidatedAlways(c) == ~O(c).SkipValidation

\* a record limit that lets one record too many pass
TooManyRecordsBy1(c, n) ==
    /\ ~O(c).SkipValidation
    /\ O(c).MaxRecords > 0
    /\ n > O(c).MaxRecords + 1

\* an element limit on the group alone, without the running total
TooManyIOElementsInGroup(c, count) ==
    /\ ~O(c).SkipValidation
    /\ O(c).MaxIOElements > 0
    /\ count > O(c).MaxIOElements

\* line 192: 2 bytes length, 8 bytes IMEI, 1 byte command, 2 bytes CRC
PacketTooShort(d) == Len(d) < 13

\* lines 200-201
PacketTooLarge(c) ==
    /\ ~O(c).SkipValidation
    /\ O(c).MaxPacketSize > 0
    /\ Len(data[c]) > O(c).MaxPacketSize

\* line 238 (minus 2 bytes length, 2 bytes CRC)
LengthMismatch(c, length) ==
    /\ ~O(c).SkipValidation
    /\ O(c).ValidateLength
    /\ length # Len(data[c]) - 4

\* line 256
CRCValidated(c) == ~O(c).SkipValidation /\ O(c).ValidateCRC

\* line 257
CRCRegionInvalid(c) == pkt[c].Length + 2 > Len(data[c])

\* line 320
TooManyRecords(c, n) ==
    /\ ~O(c).SkipValidation
    /\ O(c).MaxRecords > 0
    /\ n > O(c).MaxRecords

\* line 499
TooManyIOElements(c, count) ==
    /\ ~O(c).SkipValidation
    /\ O(c).MaxIOElements > 0
    /\ Len(r[c].IOElements) + count > O(c).MaxIOElements

\* a faulty start: the hex characters are checked before the length
ParseStartHexFirst(c) ==
    /\ pc[c] = "start"
    /\ opts' = [opts EXCEPT ![c] = IF opts[c] = <<>> THEN <<DefaultParserOptions>>
                                   ELSE opts[c]]
    /\ LET s == stripSpaces(hexStr[c])
           d == hexDecodeString(s)
       IN  IF d.err
           THEN /\ ReturnError(c, ParseError("invalid hex string: %v", <<>>, <<>>, 0))
                /\ UNCHANGED data
           ELSE IF Len(s) % 2 # 0
           THEN /\ ReturnError(c, ParseError("input hex string must have even length",
                                             <<>>, <<>>, 0))
                /\ UNCHANGED data
           ELSE IF PacketTooShort(d.bytes)
           THEN /\ ReturnError(c, ParseError("packet too short", <<>>, <<>>, 0))
                /\ data' = [data EXCEPT ![c] = d.bytes]
           ELSE /\ data' = [data EXCEPT ![c] = d.bytes]
                /\ pc' = [pc EXCEPT ![c] = "size"]
                /\ UNCHANGED ret
    /\ UNCHANGED << fn, hexStr, idx, pkt, rec, r, size, ioLocals >>

\* lines 169-198: default options, strip spaces, even length, hex decoding,
\* minimum packet size
ParseStart(c) ==
    /\ pc[c] = "start"
    /\ opts' = [opts EXCEPT ![c] = IF opts[c] = <<>> THEN <<DefaultParserOptions>>
                                   ELSE opts[c]]
    /\ \E s \in { stripSpaces(hexStr[c]) } :
       \E d \in { hexDecodeString(s) } :
           IF Len(s) % 2 # 0
           THEN /\ ReturnError(c, ParseError("input hex string must have even length",
                                             <<>>, <<>>, 0))
                /\ UNCHANGED data
           ELSE IF d.err
           THEN /\ ReturnError(c, ParseError("invalid hex string: %v", <<>>, <<>>, 0))
                /\ UNCHANGED data
           ELSE IF PacketTooShort(d.bytes)
           THEN /\ ReturnError(c, ParseError("packet too short", <<>>, <<>>, 0))
                /\ data' = [data EXCEPT ![c] = d.bytes]
           ELSE /\ data' = [data EXCEPT ![c] = d.bytes]
                /\ pc' = [pc EXCEPT ![c] = "size"]
                /\ UNCHANGED ret
    /\ UNCHANGED << fn, hexStr, idx, pkt, rec, r, size, ioLocals >>

\* a faulty start of the decoding: idx and pkt are one cursor and one packet
\* for all calls, so that a call that starts resets them for every call
CheckPacketSizeShared(c) ==
    /\ pc[c] = "size"
    /\ IF PacketTooLarge(c)
       THEN /\ ReturnError(c, ValidationError("packet_size", Len(data[c]),
                   "packet too large: %d bytes (max: %d)",
                   << Len(data[c]), O(c).MaxPacketSize >>))
            /\ UNCHANGED << idx, pkt >>
       ELSE /\ idx' = [ k \in Calls |-> 0 ]
            /\ pkt' = [ k \in Calls |-> ZeroPacket ]
            /\ pc' = [pc EXCEPT ![c] = "length"]
            /\ UNCHANGED ret
    /\ UNCHANGED << fn, args, data, rec, r, size, ioLocals >>

\* lines 200-211: maximum packet size; idx := 0; pkt := &RuptelaPacket{}
CheckPacketSize(c) ==
    /\ pc[c] = "size"
    /\ IF PacketTooLarge(c)
       THEN /\ ReturnError(c, ValidationError("packet_size", Len(data[c]),
                   "packet too large: %d bytes (max: %d)",
                   << Len(data[c]), O(c).MaxPacketSize >>))
            /\ UNCHANGED << idx, pkt >>
       ELSE /\ idx' = [idx EXCEPT ![c] = 0]
            /\ pkt' = [pkt EXCEPT ![c] = ZeroPacket]
            /\ pc' = [pc EXCEPT ![c] = "length"]
            /\ UNCHANGED ret
    /\ UNCHANGED << fn, args, data, rec, r, size, ioLocals >>

\* lines 227-244: the declared length and its validation
ReadLength(c) ==
    /\ pc[c] = "length"
    /\ LET rb == readBytes(c, 2)
       IN  IF rb.panic \/ rb.err
           THEN /\ ReadAborts(c, rb, "failed to read length: %v", <<>>)
                /\ UNCHANGED << idx, pkt >>
           ELSE /\ idx' = [idx EXCEPT ![c] = rb.idx]
                /\ pkt' = [pkt EXCEPT ![c].Length = Uint16(rb.result)]
                /\ IF LengthMismatch(c, Uint16(rb.result))
                   THEN ReturnError(c, ValidationError("packet_length", Uint16(rb.result),
                            "Invalid packet. Actual packet data length (%d B) is different from the one specified in the packet (%d B)",
                            << Len(data[c]) - 4, Uint16(rb.result) >>))
                   ELSE /\ pc' = [pc EXCEPT ![c] = "crc"]
                        /\ UNCHANGED ret
    /\ UNCHANGED << fn, args, data, rec, r, size, ioLocals >>

\* "%04X" of a uint16
Hex4(v) == hexEncodeUpper(<< v \div 256, v % 256 >>)

\* line 264: the end index 2+pkt.Length, an addition of uint16 values
crcEnd(length) == (2 + length) % 65536

\* lines 246-273: the trailing checksum and its validation
ReadCRC(c) ==
    /\ pc[c] = "crc"
    /\ LET d    == data[c]
           tail == Slice(d, Len(d) - 2, Len(d))
           crc  == Uint16(tail.bytes)
           reg  == Slice(d, 2, crcEnd(pkt[c].Length))
       IN  IF Len(d) < 2
           THEN /\ ReturnError(c, ParseError("insufficient data for CRC", <<>>, <<>>, 0))
                /\ UNCHANGED pkt
           ELSE IF tail.panic
           THEN /\ Panic(c)
                /\ UNCHANGED pkt
           ELSE /\ pkt' = [pkt EXCEPT ![c].CRC = crc]
                /\ IF CRCValidated(c)
                   THEN IF CRCRegionInvalid(c)
                        THEN ReturnError(c, ParseError("invalid packet length: %d",
                                                       << pkt[c].Length >>, <<>>, 0))
                        ELSE IF reg.panic
                        THEN Panic(c)
                        ELSE IF crc # CRC16CCITT(reg.bytes)
                        THEN ReturnError(c, ValidationError("crc", Hex4(crc),
                                 "CRC check failed. Packet CRC: %04X, Calculated CRC: %04X",
                                 << crc, CRC16CCITT(reg.bytes) >>))
                        ELSE /\ pc' = [pc EXCEPT ![c] = "imei"]
                             /\ UNCHANGED ret
                   ELSE /\ pc' = [pc EXCEPT ![c] = "imei"]
                        /\ UNCHANGED ret
    /\ UNCHANGED << fn, args, data, idx, rec, r, size, ioLocals >>

\* lines 275-284
ReadIMEI(c) ==
    /\ pc[c] = "imei"
    /\ LET rb == readBytes(c, 8)
       IN  IF rb.panic \/ rb.err
           THEN /\ ReadAborts(c, rb, "failed to read IMEI: %v", <<>>)
                /\ UNCHANGED << idx, pkt >>
           ELSE /\ idx' = [idx EXCEPT ![c] = rb.idx]
                /\ pkt' = [pkt EXCEPT ![c].IMEI = decodeIMEI(rb.result)]
                /\ pc' = [pc EXCEPT ![c] = "cmd"]
                /\ UNCHANGED ret
    /\ UNCHANGED << fn, args, data, rec, r, size, ioLocals >>

\* a faulty command step: every command is taken to carry records
ReadCommandIDAllRecords(c) ==
    /\ pc[c] = "cmd"
    /\ LET rb == readBytes(c, 1)
       IN  IF rb.panic \/ rb.err
           THEN /\ ReadAborts(c, rb, "failed to read command ID: %v", <<>>)
                /\ UNCHANGED << idx, pkt >>
           ELSE /\ idx' = [idx EXCEPT ![c] = rb.idx]
                /\ pkt' = [pkt EXCEPT ![c].CommandID = rb.result[1]]
                /\ pc' = [pc EXCEPT ![c] = "flag"]
                /\ UNCHANGED ret
    /\ UNCHANGED << fn, args, data, rec, r, size, ioLocals >>

\* lines 286-297: the command identifier selects the record-bearing layout
ReadCommandID(c) ==
    /\ pc[c] = "cmd"
    /\ LET rb == readBytes(c, 1)
       IN  IF rb.panic \/ rb.err
           THEN /\ ReadAborts(c, rb, "failed to read command ID: %v", <<>>)
                /\ UNCHANGED << idx, pkt >>
           ELSE /\ idx' = [idx EXCEPT ![c] = rb.idx]
                /\ pkt' = [pkt EXCEPT ![c].CommandID = rb.result[1]]
                /\ pc' = [pc EXCEPT ![c] = IF rb.result[1] = 68 \/ rb.result[1] = 1
                                           THEN "flag" ELSE "return"]
                /\ UNCHANGED ret
    /\ UNCHANGED << fn, args, data, rec, r, size, ioLocals >>

\* lines 298-307
ReadRecordsFlag(c) ==
    /\ pc[c] = "flag"
    /\ LET rb == readBytes(c, 1)
       IN  IF rb.panic \/ rb.err
           THEN /\ ReadAborts(c, rb, "failed to read records flag: %v", <<>>)
                /\ UNCHANGED << idx, pkt >>
           ELSE /\ idx' = [idx EXCEPT ![c] = rb.idx]
                /\ pkt' = [pkt EXCEPT ![c].RecordsFlag = rb.result[1]]
                /\ pc' = [pc EXCEPT ![c] = "numrec"]
                /\ UNCHANGED ret
    /\ UNCHANGED << fn, args, data, rec, r, size, ioLocals >>

\* lines 309-329: the record count, its validation, and the loop's first test
ReadNumRecords(c) ==
    /\ pc[c] = "numrec"
    /\ LET rb == readBytes(c, 1)
       IN  IF rb.panic \/ rb.err
           THEN /\ ReadAborts(c, rb, "failed to read number of records: %v", <<>>)
                /\ UNCHANGED << idx, pkt, rec >>
           ELSE /\ idx' = [idx EXCEPT ![c] = rb.idx]
                /\ pkt' = [pkt EXCEPT ![c].NumRecords = rb.result[1]]
                /\ IF TooManyRecords(c, rb.result[1])
                   THEN /\ ReturnError(c, ValidationError("num_records", rb.result[1],
                               "too many records: %d (max: %d)",
                               << rb.result[1], O(c).MaxRecords >>))
                        /\ UNCHANGED rec
                   ELSE /\ rec' = [rec EXCEPT ![c] = 0]
                        /\ pc' = [pc EXCEPT ![c] = IF 0 < rb.result[1]
                                                   THEN "timestamp" ELSE "return"]
                        /\ UNCHANGED ret
    /\ UNCHANGED << fn, args, data, r, size, ioLocals >>

(***************************************************************************)
(* Record decoder, lines 329-482.  Every field is one cursor read.         *)
(***************************************************************************)
\* a fixed-width record field: read n bytes at position `at`, store them
\* with Set, go on at `to`
ReadRecordField(c, at, n, msg, Set(_, _), to) ==
    /\ pc[c] = at
    /\ LET rb == readBytes(c, n)
       IN  IF rb.panic \/ rb.err
           THEN /\ ReadAborts(c, rb, msg, << rec[c] >>)
                /\ UNCHANGED << idx, r >>
           ELSE /\ idx' = [idx EXCEPT ![c] = rb.idx]
                /\ r' = [r EXCEPT ![c] = Set(r[c], rb.result)]
                /\ pc' = [pc EXCEPT ![c] = to]
                /\ UNCHANGED ret
    /\ UNCHANGED << fn, args, data, pkt, rec, size, ioLocals >>

\* a faulty decoder of the longitude: the four bytes are stored as the
\* latitude, as if the two fields came in the other order
ReadLongitudeAsLatitude(c) ==
    ReadRecordField(c, "lon", 4, "failed to read longitude for record %d: %v",
        LAMBDA x, bs : [x EXCEPT !.Latitude = Int32(Uint32(bs))], "lat")

\* a faulty decoder of the timestamp extension: the record extension is
\* read for every command
ReadTimestampExtensionThenExtension(c) ==
    ReadRecordField(c, "tsext", 1, "failed to read timestamp extension for record %d: %v",
        LAMBDA x, bs : [x EXCEPT !.TimestampExtension = bs[1]], "rext")

\* a faulty head of the record loop: the timestamp is taken from the buffer
\* without moving the cursor
ReadTimestampInPlace(c) ==
    /\ pc[c] = "timestamp"
    /\ LET rb == readBytes(c, 4)
       IN  IF rb.panic \/ rb.err
           THEN ReadAborts(c, rb, "failed to read timestamp for record %d: %v",
                           << rec[c] >>)
                /\ UNCHANGED r
           ELSE /\ r' = [r EXCEPT ![c] =
                           [ZeroRecord EXCEPT !.Timestamp = Uint32(rb.result)]]
                /\ pc' = [pc EXCEPT ![c] = "tsext"]
                /\ UNCHANGED ret
    /\ UNCHANGED << fn, args, data, idx, pkt, rec, size, ioLocals >>

\* lines 330-342: r := RuptelaRecord{}, then the timestamp
ReadTimestamp(c) ==
    ReadRecordField(c, "timestamp", 4, "failed to read timestamp for record %d: %v",
        LAMBDA x, bs : [ZeroRecord EXCEPT !.Timestamp = Uint32(bs)], "tsext")

\* lines 344-356
ReadTimestampExtension(c) ==
    ReadRecordField(c, "tsext", 1, "failed to read timestamp extension for record %d: %v",
        LAMBDA x, bs : [x EXCEPT !.TimestampExtension = bs[1]],
        IF pkt[c].CommandID = 68 THEN "rext" ELSE "priority")

\* lines 357-367: only for command 68
ReadRecordExtension(c) ==
    ReadRecordField(c, "rext", 1, "failed to read record extension for record %d: %v",
        LAMBDA x, bs : [x EXCEPT !.RecordExtension = << bs[1] >>], "priority")

\* lines 369-378
ReadPriority(c) ==
    ReadRecordField(c, "priority", 1, "failed to read priority for record %d: %v",
        LAMBDA x, bs : [x EXCEPT !.Priority = bs[1]], "lon")

\* lines 380-390
ReadLongitude(c) ==
    ReadRecordField(c, "lon", 4, "failed to read longitude for record %d: %v",
        LAMBDA x, bs : [x EXCEPT !.Longitude = Int32(Uint32(bs))], "lat")

\* lines 392-402
ReadLatitude(c) ==
    ReadRecordField(c, "lat", 4, "failed to read latitude for record %d: %v",
        LAMBDA x, bs : [x EXCEPT !.Latitude = Int32(Uint32(bs))], "alt")

\* lines 404-414
ReadAltitude(c) ==
    ReadRecordField(c, "alt", 2, "failed to read altitude for record %d: %v",
        LAMBDA x, bs : [x EXCEPT !.Altitude = Int16(Uint16(bs))], "angle")

\* lines 416-426
ReadAngle(c) ==
    ReadRecordField(c, "angle", 2, "failed to read angle for record %d: %v",
        LAMBDA x, bs : [x EXCEPT !.Angle = Uint16(bs)], "sat")

\* lines 428-437
ReadSatellites(c) ==
    ReadRecordField(c, "sat", 1, "failed to read satellites for record %d: %v",
        LAMBDA x, bs : [x EXCEPT !.Satellites = bs[1]], "speed")

\* lines 439-448
ReadSpeed(c) ==
    ReadRecordField(c, "speed", 2, "failed to read speed for record %d: %v",
        LAMBDA x, bs : [x EXCEPT !.Speed = Uint16(bs)], "hdop")

\* lines 450-459
ReadHDOP(c) ==
    ReadRecordField(c, "hdop", 1, "failed to read HDOP for record %d: %v",
        LAMBDA x, bs : [x EXCEPT !.HDOP = bs[1]], "eventio")

\* lines 461-488: event IO (2 bytes for command 68, 1 byte otherwise), the
\* empty element list, and the first width class
ReadEventIO(c) ==
    /\ pc[c] = "eventio"
    /\ LET rb == readBytes(c, IF pkt[c].CommandID = 68 THEN 2 ELSE 1)
       IN  IF rb.panic \/ rb.err
           THEN /\ ReadAborts(c, rb, "failed to read event IO for record %d: %v",
                              << rec[c] >>)
                /\ UNCHANGED << idx, r, size >>
           ELSE /\ idx' = [idx EXCEPT ![c] = rb.idx]
                /\ r' = [r EXCEPT ![c] =
                           [r[c] EXCEPT !.EventIO = IF pkt[c].CommandID = 68
                                                    THEN Uint16(rb.result)
                                                    ELSE rb.result[1],
                                        !.IOElements = <<>>]]
                /\ size' = [size EXCEPT ![c] = 1]
                /\ pc' = [pc EXCEPT ![c] = "iocount"]
                /\ UNCHANGED ret
    /\ UNCHANGED << fn, args, data, pkt, rec, ioLocals >>

(***************************************************************************)
(* IO-element decoder, lines 487-550.                                      *)
(***************************************************************************)
\* a faulty end of the loops: the finished record is put in front of the
\* records decoded before it
EndOfGroupPrepend(c, rr) ==
    IF size[c] < Len(Sizes)
    THEN /\ size' = [size EXCEPT ![c] = size[c] + 1]
         /\ r' = [r EXCEPT ![c] = rr]
         /\ pc' = [pc EXCEPT ![c] = "iocount"]
         /\ UNCHANGED << pkt, rec >>
    ELSE /\ pkt' = [pkt EXCEPT ![c].Records = << rr >> \o pkt[c].Records]
         /\ rec' = [rec EXCEPT ![c] = rec[c] + 1]
         /\ r' = [r EXCEPT ![c] = rr]
         /\ pc' = [pc EXCEPT ![c] = IF rec[c] + 1 < pkt[c].NumRecords
                                    THEN "timestamp" ELSE "return"]
         /\ UNCHANGED size

\* the end of one width class (line 548), with rr the record as filled so
\* far: the next width class, or, after the last one, line 549 appends the
\* record and the record loop (line 329) goes on or ends
EndOfGroup(c, rr) ==
    IF size[c] < Len(Sizes)
    THEN /\ size' = [size EXCEPT ![c] = size[c] + 1]
         /\ r' = [r EXCEPT ![c] = rr]
         /\ pc' = [pc EXCEPT ![c] = "iocount"]
         /\ UNCHANGED << pkt, rec >>
    ELSE /\ pkt' = [pkt EXCEPT ![c].Records = Append(pkt[c].Records, rr)]
         /\ rec' = [rec EXCEPT ![c] = rec[c] + 1]
         /\ r' = [r EXCEPT ![c] = rr]
         /\ pc' = [pc EXCEPT ![c] = IF rec[c] + 1 < pkt[c].NumRecords
                                    THEN "timestamp" ELSE "return"]
         /\ UNCHANGED size

\* lines 489-507: the element count of a width class and its validation
ReadIOCount(c) ==
    /\ pc[c] = "iocount"
    /\ LET rb == readBytes(c, 1)
       IN  IF rb.panic \/ rb.err
           THEN /\ ReadAborts(c, rb, "failed to read IO count for record %d, size %d: %v",
                              << rec[c], Sizes[size[c]] >>)
                /\ UNCHANGED << idx, pkt, rec, r, size, ioCount, j >>
           ELSE /\ idx' = [idx EXCEPT ![c] = rb.idx]
                /\ ioCount' = [ioCount EXCEPT ![c] = rb.result[1]]
                /\ IF TooManyIOElements(c, rb.result[1])
                   THEN /\ ReturnError(c, ValidationError("io_elements",
                               Len(r[c].IOElements) + rb.result[1],
                               "too many IO elements: %d (max: %d)",
                               << Len(r[c].IOElements) + rb.result[1],
                                  O(c).MaxIOElements >>))
                        /\ UNCHANGED << pkt, rec, r, size, j >>
                   ELSE /\ j' = [j EXCEPT ![c] = 0]
                        /\ UNCHANGED ret
                        /\ IF 0 < rb.result[1]
                           THEN /\ pc' = [pc EXCEPT ![c] = "ioid"]
                                /\ UNCHANGED << pkt, rec, r, size >>
                           ELSE EndOfGroup(c, r[c])
    /\ UNCHANGED << fn, args, data, ioID, b, ioValBytes >>

\* lines 508-532: the element identifier (2 bytes for command 68, 1 byte
\* otherwise); var ioValBytes []byte; b := 0
ReadIOID(c) ==
    /\ pc[c] = "ioid"
    /\ LET rb == readBytes(c, IF pkt[c].CommandID = 68 THEN 2 ELSE 1)
       IN  IF rb.panic \/ rb.err
           THEN /\ ReadAborts(c, rb,
                       "failed to read IO ID for record %d, size %d, element %d: %v",
                       << rec[c], Sizes[size[c]], j[c] >>)
                /\ UNCHANGED << idx, ioID, b, ioValBytes >>
           ELSE /\ idx' = [idx EXCEPT ![c] = rb.idx]
                /\ ioID' = [ioID EXCEPT ![c] = IF pkt[c].CommandID = 68
                                               THEN Uint16(rb.result)
                                               ELSE rb.result[1]]
                /\ ioValBytes' = [ioValBytes EXCEPT ![c] = <<>>]
                /\ b' = [b EXCEPT ![c] = 0]
                /\ pc' = [pc EXCEPT ![c] = "ioval"]
                /\ UNCHANGED ret
    /\ UNCHANGED << fn, args, data, pkt, rec, r, size, ioCount, j >>

\* IOElement{Size: size, ID: ioID, Value: hexValue} (lines 544-545)
NewIOElement(sz, id, valBytes) ==
    [ Size |-> sz, ID |-> id, Value |-> hexEncodeUpper(valBytes) ]

\* lines 532-547: one value byte; after the last one the element is appended
\* and the element loop goes on or the width class ends
ReadIOValueByte(c) ==
    /\ pc[c] = "ioval"
    /\ LET rb == readBytes(c, 1)
           vb == Append(ioValBytes[c], rb.result[1])
           rr == [r[c] EXCEPT !.IOElements =
                      Append(r[c].IOElements,
                             NewIOElement(Sizes[size[c]], ioID[c], vb))]
       IN  IF rb.panic \/ rb.err
           THEN /\ ReadAborts(c, rb,
                       "failed to read IO value byte %d for record %d, size %d, element %d: %v",
                       << b[c], rec[c], Sizes[size[c]], j[c] >>)
                /\ UNCHANGED << idx, pkt, rec, r, size, j, b, ioValBytes >>
           ELSE /\ idx' = [idx EXCEPT ![c] = rb.idx]
                /\ ioValBytes' = [ioValBytes EXCEPT ![c] = vb]
                /\ b' = [b EXCEPT ![c] = b[c] + 1]
                /\ UNCHANGED ret
                /\ IF b[c] + 1 < Sizes[size[c]]
                   THEN /\ pc' = [pc EXCEPT ![c] = "ioval"]
                        /\ UNCHANGED << pkt, rec, r, size, j >>
                   ELSE /\ j' = [j EXCEPT ![c] = j[c] + 1]
                        /\ IF j[c] + 1 < ioCount[c]
                           THEN /\ r' = [r EXCEPT ![c] = rr]
                                /\ pc' = [pc EXCEPT ![c] = "ioid"]
                                /\ UNCHANGED << pkt, rec, size >>
                           ELSE EndOfGroup(c, rr)
    /\ UNCHANGED << fn, args, data, ioCount, ioID >>

\* line 552: return pkt, nil
ReturnPacket(c) ==
    /\ pc[c] = "return"
    /\ pc' = [pc EXCEPT ![c] = "returned"]
    /\ ret' = [ret EXCEPT ![c] = [ pktNil |-> FALSE, pkt |-> pkt[c], err |-> NilError ]]
    /\ UNCHANGED << fn, args, data, idx, pkt, rec, r, size, ioLocals >>

Next ==
    \/ \E c \in Calls : ParseStart(c)
    \/ \E c \in Calls : CheckPacketSize(c)
    \/ \E c \in Calls : ReadLength(c)
    \/ \E c \in Calls : ReadCRC(c)
    \/ \E c \in Calls : ReadIMEI(c)
    \/ \E c \in Calls : ReadCommandID(c)
    \/ \E c \in Calls : ReadRecordsFlag(c)
    \/ \E c \in Calls : ReadNumRecords(c)
    \/ \E c \in Calls : ReadTimestamp(c)
    \/ \E c \in Calls : ReadTimestampExtension(c)
    \/ \E c \in Calls : ReadRecordExtension(c)
    \/ \E c \in Calls : ReadPriority(c)
    \/ \E c \in Calls : ReadLongitude(c)
    \/ \E c \in Calls : ReadLatitude(c)
    \/ \E c \in Calls : ReadAltitude(c)
    \/ \E c \in Calls : ReadAngle(c)
    \/ \E c \in Calls : ReadSatellites(c)
    \/ \E c \in Calls : ReadSpeed(c)
    \/ \E c \in Calls : ReadHDOP(c)
    \/ \E c \in Calls : ReadEventIO(c)
    \/ \E c \in Calls : ReadIOCount(c)
    \/ \E c \in Calls : ReadIOID(c)
    \/ \E c \in Calls : ReadIOValueByte(c)
    \/ \E c \in Calls : ReturnPacket(c)

(***************************************************************************)
(* Inputs.  Packets are built field by field, framed with their length and *)
(* checksum, then damaged: a wrong checksum, a wrong or extreme declared   *)
(* length, bytes cut from the tail, every prefix of two packets; and the   *)
(* input strings of the test table (lines 588-687).                        *)
(***************************************************************************)
MaxNumRecords == 2   \* built packets carry 0..MaxNumRecords records
MaxCut == 3          \* built packets lose 1..MaxCut bytes of their tail

U16BE(v) == << v \div 256, v % 256 >>

\* the identifier bytes of the test packets: 00030EA2BC939936
TestIMEI == << 0, 3, 14, 162, 188, 147, 153, 54 >>

ElementID(cmd, k) == IF cmd = 68 THEN << 1, k >> ELSE << k >>

RECURSIVE ElementBytes(_, _, _)
ElementBytes(cmd, w, n) ==
    IF n = 0 THEN << >>
    ELSE ElementBytes(cmd, w, n - 1) \o ElementID(cmd, n)
            \o [ i \in 1..w |-> 170 + 16 * n + i ]

GroupBytes(cmd, w, n) == << n >> \o ElementBytes(cmd, w, n)

\* one record with counts[i] elements of width class Sizes[i]
RecordBytes(cmd, counts) ==
       << 101, 74, 177, 3 >> \o << 7 >>
    \o (IF cmd = 68 THEN << 2 >> ELSE << >>)
    \o << 1 >>
    \o << 15, 20, 49, 210 >> \o << 240, 0, 18, 52 >>
    \o << 255, 246 >> \o << 35, 40 >> \o << 9 >> \o << 0, 60 >> \o << 12 >>
    \o (IF cmd = 68 THEN << 1, 44 >> ELSE << 200 >>)
    \o GroupBytes(cmd, 1, counts[1]) \o GroupBytes(cmd, 2, counts[2])
    \o GroupBytes(cmd, 4, counts[3]) \o GroupBytes(cmd, 8, counts[4])

RECURSIVE Repeat(_, _)
Repeat(bs, n) == IF n = 0 THEN << >> ELSE bs \o Repeat(bs, n - 1)

\* length, identifier, command, payload, checksum
Frame(cmd, payload) ==
    LET body == TestIMEI \o << cmd >> \o payload
    IN  U16BE(Len(body)) \o body \o U16BE(CRC16CCITT(body))

CountProfiles == { << 1, 0, 0, 0 >>, << 1, 1, 0, 0 >>, << 2, 0, 1, 1 >> }

RecordPackets ==
    { Frame(cmd, << 0, n >> \o Repeat(RecordBytes(cmd, cp), n)) :
        cmd \in {1, 68}, n \in 0..MaxNumRecords, cp \in CountProfiles }

\* command 2 carries no records, whatever follows the command byte
OtherPackets ==
    { Frame(2, << >>), Frame(2, << 0, 1, 200 >>) }
    \union { Frame(cmd, << 0, 1 >> \o RecordBytes(1, << 1, 0, 0, 0 >>)) :
               cmd \in { 0, 67, 69, 255 } }

\* two records that differ in their element groups
MixedPackets ==
    { Frame(cmd, << 0, 2 >> \o RecordBytes(cmd, << 1, 0, 0, 0 >>)
                            \o RecordBytes(cmd, << 0, 1, 0, 0 >>)) :
        cmd \in {1, 68} }

\* a record of command 1 without elements, followed by one more zero byte
\* inside the checksummed region
SlackPackets ==
    { Frame(1, << 0, 1 >> \o RecordBytes(1, << 0, 0, 0, 0 >>) \o << 0 >>) }

\* the shortest packet of command 1: identifier 00030EA2BC939963, command 1
\* and the checksum 0x2D00 of these nine bytes, nothing else
HeaderOnlyPackets ==
    { << 0, 9, 0, 3, 14, 162, 188, 147, 153, 99, 1, 45, 0 >> }

ValidPackets ==
    RecordPackets \union OtherPackets \union MixedPackets \union SlackPackets
        \union HeaderOnlyPackets

WithBadCRC(p) == [p EXCEPT ![Len(p)] = (p[Len(p)] + 1) % 256]
WithLength(p, l) == U16BE(l) \o SubSeq(p, 3, Len(p))
CutTail(p, k) == SubSeq(p, 1, Len(p) - k)

\* p without its last 3 bytes, the length field set to what is left
ShortOfTail(p) == WithLength(CutTail(p, 3), Len(p) - 7)

Damaged(p) ==
    { WithBadCRC(p), WithLength(p, 0), WithLength(p, Len(p) - 3),
      WithLength(p, 65535), ShortOfTail(p) }
    \union { CutTail(p, k) : k \in 1..MaxCut }

\* every prefix of a command 68 and of a command 1 packet
PrefixBases ==
    { Frame(68, << 0, 1 >> \o RecordBytes(68, << 1, 1, 0, 0 >>)),
      Frame(1, << 0, 1 >> \o RecordBytes(1, << 0, 0, 1, 0 >>)) }

Prefixes == UNION { { SubSeq(p, 1, k) : k \in 0..Len(p) } : p \in PrefixBases }

ToLower(s) ==
    [ i \in 1..Len(s) |->
        CASE s[i] = "A" -> "a" [] s[i] = "B" -> "b" [] s[i] = "C" -> "c"
          [] s[i] = "D" -> "d" [] s[i] = "E" -> "e" [] s[i] = "F" -> "f"
          [] OTHER -> s[i] ]

\* a space after every third character: between bytes and inside bytes
Spaced(s) ==
    [ i \in 1..(Len(s) + ((Len(s) - 1) \div 3)) |->
        IF i % 4 = 0 THEN " " ELSE s[i - (i \div 4)] ]

SpecPacket == Frame(1, << 0, 2 >> \o Repeat(RecordBytes(1, << 1, 0, 0, 0 >>), 2))

TestStrings ==
    { "",
      "invalid_hex",
      "12345",
      "GGHHIIJJ",
      "0102030405",
      "000D00030EA2BC939936440001FFFF",
      "000D00030EA2BC9399364400010000",
      "000D00030EA2BC939936440001" }

StringInputs ==
    TestStrings
    \union { String(ToLower(hexChars(SpecPacket))),
             String(Spaced(hexChars(SpecPacket))),
             String(Tail(hexChars(SpecPacket))),
             String([hexChars(SpecPacket) EXCEPT ![30] = "G"]),
             String(Spaced(hexChars(Frame(2, << >>)))) \o " " }

ByteInputs ==
    ValidPackets \union UNION { Damaged(p) : p \in ValidPackets } \union Prefixes

Inputs == { hexEncodeUpper(p) : p \in ByteInputs } \union StringInputs

\* the inputs that are tried under every policy
CoreInputs ==
    { hexEncodeUpper(p) :
        p \in { SpecPacket, WithBadCRC(SpecPacket), WithLength(SpecPacket, 0),
                CutTail(SpecPacket, 2), Frame(2, << >>),
                Frame(68, << 0, 1 >> \o RecordBytes(68, << 2, 0, 1, 1 >>)),
                Frame(1, << 0, 0 >>), SubSeq(SpecPacket, 1, 12),
                Frame(68, << 0, 1 >> \o RecordBytes(68, << 1, 1, 0, 0 >>)) } }
    \union TestStrings

\* every policy over small limits and the defaults
Policies ==
    [ ValidateCRC : BOOLEAN, ValidateLength : BOOLEAN, SkipValidation : BOOLEAN,
      MaxPacketSize : { -1, 0, 14, 2048 }, MaxRecords : { -1, 0, 1, 100 },
      MaxIOElements : { -1, 0, 1, 1000 }, EnableDebug : { FALSE } ]

\* the policies that every input is tried under
CorePolicies ==
    { o \in Policies :
        << o.MaxPacketSize, o.MaxRecords, o.MaxIOElements >>
            \in { << 2048, 100, 1000 >>, << 0, 0, 0 >> } }

PolicyArgs == { << o >> : o \in Policies } \union { << >> }
CorePolicyArgs == { << o >> : o \in CorePolicies } \union { << >> }

\* the calls of hs and os, before their first step
Start(hs, os) ==
    /\ hexStr = hs
    /\ opts = os
    /\ data = [ c \in DOMAIN hs |-> << >> ]
    /\ idx = [ c \in DOMAIN hs |-> 0 ]
    /\ pkt = [ c \in DOMAIN hs |-> ZeroPacket ]
    /\ rec = [ c \in DOMAIN hs |-> 0 ]
    /\ r = [ c \in DOMAIN hs |-> ZeroRecord ]
    /\ size = [ c \in DOMAIN hs |-> 1 ]
    /\ ioCount = [ c \in DOMAIN hs |-> 0 ]
    /\ j = [ c \in DOMAIN hs |-> 0 ]
    /\ ioID = [ c \in DOMAIN hs |-> 0 ]
    /\ b = [ c \in DOMAIN hs |-> 0 ]
    /\ ioValBytes = [ c \in DOMAIN hs |-> << >> ]
    /\ pc = [ c \in DOMAIN hs |-> "start" ]
    /\ ret = [ c \in DOMAIN hs |-> NoReturn ]

\* the (input, policy) pairs of one decode call: every input under the core
\* policies, the core inputs under every policy
Scenarios == (Inputs \X CorePolicyArgs) \union (CoreInputs \X PolicyArgs)

\* one decode call
Init ==
    /\ fn = NoFunction
    /\ \E sc \in Scenarios :
         Start([ c \in {1} |-> sc[1] ], [ c \in {1} |-> sc[2] ])

Spec == Init /\ [][Next]_vars

\* the calls whose termination is checked: the well-formed packets, these
\* packets without their last bytes, and the test strings, under the core
\* policies
FairInputs ==
    { hexEncodeUpper(p) :
        p \in ValidPackets \union { CutTail(q, MaxCut) : q \in ValidPackets } }
    \union TestStrings

InitFair ==
    /\ fn = NoFunction
    /\ \E sc \in FairInputs \X CorePolicyArgs :
         Start([ c \in {1} |-> sc[1] ], [ c \in {1} |-> sc[2] ])

\* some call has not ended.  Every position of the decoder but "returned"
\* and "panicked" has an action whose only guard is that position, so this
\* is the condition under which Next can take a step.
Running == \E c \in Calls : ~(pc[c] \in { "returned", "panicked" })

\* a call that has started runs on until it returns or panics: no step of
\* the decoder waits for anything.  This is WF_vars(Next), weak fairness of
\* the decoder's steps, with Running for ENABLED <<Next>>_vars.
Fairness == []<>(~Running) \/ []<><<Next>>_vars

SpecFair == InitFair /\ [][Next]_vars /\ Fairness

(***************************************************************************)
(* Packets of the largest declared lengths.  A uint16 length of 65534 is   *)
(* the length field of a well-formed packet of 65538 bytes; MaxPacketSize  *)
(* must be off (<= 0) or at least that large for such a packet to pass.    *)
(***************************************************************************)
\* s repeated n times
RECURSIVE RepeatString(_, _)
RepeatString(s, n) ==
    IF n = 0 THEN ""
    ELSE LET half == RepeatString(s, n \div 2)
         IN  half \o half \o (IF n % 2 = 1 THEN s ELSE "")

\* the hex of 65538 bytes: the declared length l, 65535 bytes 0xAA, and a
\* final byte 0x01
LargePacket(l) == Hex4(l) \o RepeatString("AA", 65535) \o "01"

LargeInputs == { LargePacket(l) : l \in { 65534, 65535 } }

LargePolicies ==
    [ ValidateCRC : BOOLEAN, ValidateLength : BOOLEAN, SkipValidation : BOOLEAN,
      MaxPacketSize : { 0, 65538 }, MaxRecords : { 100 },
      MaxIOElements : { 1000 }, EnableDebug : { FALSE } ]

LargeScenarios ==
    (LargeInputs \X { << o >> : o \in LargePolicies })
    \union (CoreInputs \X CorePolicyArgs)

\* one decode call, the largest packets included
InitLarge ==
    /\ fn = NoFunction
    /\ \E sc \in LargeScenarios :
         Start([ c \in {1} |-> sc[1] ], [ c \in {1} |-> sc[2] ])

SpecLarge == InitLarge /\ [][Next]_vars

(***************************************************************************)
(* Two decode calls side by side.  The calls share nothing but the         *)
(* read-only checksum table, so their steps interleave freely.             *)
(***************************************************************************)
\* one record of command 68 with one 1-byte element, and the shortest packet
PairPacket == Frame(68, << 0, 1 >> \o RecordBytes(68, << 1, 0, 0, 0 >>))
ShortPacket == Frame(2, << >>)

\* the length fields tried on a packet: none, one byte more than the packet
\* holds, the whole buffer, the largest
PairLengths(p) == { 0, Len(p) - 3, Len(p), 65535 }

\* two inputs that differ in the length field only, under one policy that
\* does not validate the length
LengthPairs ==
    { << << hexEncodeUpper(p), hexEncodeUpper(WithLength(p, l)) >>, << << o >>, << o >> >> >> :
        p \in { PairPacket, ShortPacket },
        l \in PairLengths(PairPacket) \union PairLengths(ShortPacket),
        o \in { q \in CorePolicies :
                  /\ q.SkipValidation \/ ~q.ValidateLength
                  /\ q.MaxPacketSize = 2048 } }

\* SkipValidation with every other check off, and with every other check on
\* and the tightest limits
SkipLoose ==
    [ ValidateCRC |-> FALSE, ValidateLength |-> FALSE, SkipValidation |-> TRUE,
      MaxPacketSize |-> 0, MaxRecords |-> 0, MaxIOElements |-> 0,
      EnableDebug |-> FALSE ]
SkipTight ==
    { [ ValidateCRC |-> v, ValidateLength |-> v, SkipValidation |-> TRUE,
        MaxPacketSize |-> 14, MaxRecords |-> 1, MaxIOElements |-> 1,
        EnableDebug |-> FALSE ] : v \in BOOLEAN }

\* one input under two policies that both set SkipValidation
SkipPairs ==
    { << << h, h >>, << << SkipLoose >>, << o >> >> >> :
        h \in { hexEncodeUpper(p) :
                  p \in { SpecPacket, WithBadCRC(PairPacket),
                          WithLength(PairPacket, 0), CutTail(PairPacket, 1),
                          SubSeq(ShortPacket, 1, 12) } }
              \union { "12345", "GGHHIIJJ" },
        o \in SkipTight }

\* an input and the same input without its last byte, under one policy
TruncationPairs ==
    { << << hexEncodeUpper(p), hexEncodeUpper(CutTail(p, 1)) >>, << o, o >> >> :
        p \in { PairPacket, ShortPacket, Frame(2, << 0, 1, 200 >>) },
        o \in { << >>, << SkipLoose >>,
                << [DefaultParserOptions EXCEPT !.ValidateLength = FALSE] >>,
                << [DefaultParserOptions EXCEPT !.ValidateCRC = FALSE] >> } }

\* an input without spaces and the same input with spaces put in: after
\* every third character, in front, or at the end
SpacingsOf(h) == { String(Spaced(Chars(h))), " " \o h, h \o "  " }

SpacePairs ==
    UNION { { << << h, h2 >>, << o, o >> >> :
                h2 \in SpacingsOf(h), o \in { << >>, << SkipLoose >> } } :
            h \in { hexEncodeUpper(PairPacket),
                    hexEncodeUpper(WithBadCRC(ShortPacket)),
                    "12345", "GGHHIIJJ", "0102030405" } }

PairScenarios ==
    LengthPairs \union SkipPairs \union TruncationPairs \union SpacePairs

InitPair ==
    /\ fn = NoFunction
    /\ \E sc \in PairScenarios :
         Start([ c \in {1, 2} |-> sc[1][c] ], [ c \in {1, 2} |-> sc[2][c] ])

SpecPair == InitPair /\ [][Next]_vars

(***************************************************************************)
(* Three decode calls side by side: calls 1 and 3 are the same call made   *)
(* twice, call 2 is any other call under the same policy.  In the runs     *)
(* where call 3 ends before the others start, call 3 runs alone.           *)
(***************************************************************************)
\* the call made twice: one record of command 68, the same without its last
\* bytes, and the shortest packet of command 1
TripleInputs ==
    { hexEncodeUpper(p) :
        p \in HeaderOnlyPackets \union { PairPacket, CutTail(PairPacket, MaxCut) } }

\* the call in between: one record of command 1, a string that is no hex,
\* and the record of command 68 again
TripleOthers ==
    { hexEncodeUpper(Frame(1, << 0, 1 >> \o RecordBytes(1, << 1, 0, 0, 0 >>))),
      "GGHHIIJJ", hexEncodeUpper(PairPacket) }

\* the default policy (opts nil) and validation switched off
TriplePolicies == { << >>, << SkipLoose >> }

InitTriple ==
    /\ fn = NoFunction
    /\ \E x \in TripleInputs, y \in TripleOthers, o \in TriplePolicies :
         Start(<< x, y, x >>, << o, o, o >>)

SpecTriple == InitTriple /\ [][Next]_vars

(***************************************************************************)
(* CRC16CCITT called by itself (lines 106-112), one pass of its loop per   *)
(* step.  No decode call is in progress.                                   *)
(***************************************************************************)
\* crc = (crc >> 8) ^ crc16Table[(crc^uint16(b))&0xFF] for the next byte
CRC16Loop ==
    /\ fn.pc = "loop"
    /\ fn.i < Len(fn.data)
    /\ fn' = [fn EXCEPT !.crc = CRC16Step(fn.crc, fn.data[fn.i + 1]),
                        !.i = fn.i + 1]
    /\ UNCHANGED decodeVars

\* return crc
CRC16Return ==
    /\ fn.pc = "loop"
    /\ fn.i = Len(fn.data)
    /\ fn' = [fn EXCEPT !.pc = "returned"]
    /\ UNCHANGED decodeVars

NextCRC ==
    \/ CRC16Loop
    \/ CRC16Return

\* the empty sequence, every single byte, pairs of bytes, the ASCII digits
\* "123456789", and the checksummed regions of the packets
CRCInputs ==
    { << >>, << 49, 50, 51, 52, 53, 54, 55, 56, 57 >> }
    \union { << x >> : x \in 0..255 }
    \union { << x, y >> : x, y \in { 0, 1, 128, 255 } }
    \union { SubSeq(p, 3, Len(p) - 2) : p \in ValidPackets }

InitCRC ==
    /\ Start(<< >>, << >>)
    /\ \E bytes \in CRCInputs :
         fn = [ data |-> bytes, i |-> 0, crc |-> 0, pc |-> "loop" ]

SpecCRC == InitCRC /\ [][NextCRC]_vars

(***************************************************************************)
(* decodeIMEI called by itself (lines 115-128), one pass of its loop per   *)
(* step.  No decode call is in progress.                                   *)
(***************************************************************************)
\* the body of the loop, lines 117-125
IMEILoop ==
    /\ fn.pc = "imei"
    /\ fn.i < 8
    /\ LET high == (fn.bcd[fn.i + 1] \div 16) % 16
           low  == fn.bcd[fn.i + 1] % 16
       IN  fn' = [fn EXCEPT
                    !.imei = IF fn.i = 0 /\ high = 0
                             THEN MulAdd10(fn.imei, low)
                             ELSE MulAdd10(MulAdd10(fn.imei, high), low),
                    !.i = fn.i + 1]
    /\ UNCHANGED decodeVars

\* return imei
IMEIReturn ==
    /\ fn.pc = "imei"
    /\ fn.i >= 8
    /\ fn' = [fn EXCEPT !.pc = "returned"]
    /\ UNCHANGED decodeVars

NextIMEI ==
    \/ IMEILoop
    \/ IMEIReturn

\* the identifier of the test packets, eight equal bytes of every value,
\* and one byte among seven others, with and without nibbles above 9
IMEIInputs ==
    { TestIMEI }
    \union { [ i \in 1..8 |-> x ] : x \in 0..255 }
    \union { [ i \in 1..8 |-> IF i = k THEN x ELSE y ] :
               k \in 1..8, x \in { 0, 9, 15, 18, 144, 153, 240, 255 },
               y \in { 0, 153, 255 } }

InitIMEI ==
    /\ Start(<< >>, << >>)
    /\ \E bcd \in IMEIInputs :
         fn = [ bcd |-> bcd, i |-> 0, imei |-> << 0, 0, 0, 0 >>, pc |-> "imei" ]

SpecIMEI == InitIMEI /\ [][NextIMEI]_vars

(***************************************************************************)
(* ruptelaProcessor.Process (src/internal/ruptela_parser/ruptela_parser.go *)
(* lines 113-206).  fn holds the processor's call: the message body, the   *)
(* processor's batch_mode and options, and what Process returns.  The      *)
(* decode call it makes is call 1 of the decoder above.                    *)
(***************************************************************************)
\* the white space of strings.TrimSpace that occurs in message bodies
WhiteSpace == { " ", "\t", "\n", "\r" }

RECURSIVE TrimLeft(_)
TrimLeft(s) ==
    IF Len(s) > 0 /\ SubSeq(s, 1, 1) \in WhiteSpace
    THEN TrimLeft(SubSeq(s, 2, Len(s))) ELSE s

RECURSIVE TrimRight(_)
TrimRight(s) ==
    IF Len(s) > 0 /\ SubSeq(s, Len(s), Len(s)) \in WhiteSpace
    THEN TrimRight(SubSeq(s, 1, Len(s) - 1)) ELSE s

\* strings.TrimSpace
TrimSpace(s) == TrimRight(TrimLeft(s))

\* the message of a record in batch mode (lines 137-167): the record's
\* fields with IMEI and COMMAND_ID
RecordMessage(p, i) ==
    [ IMEI |-> p.IMEI, COMMAND_ID |-> p.CommandID, fields |-> p.Records[i] ]

\* the message of a packet without records in batch mode (lines 171-184)
PacketInfoMessage(p) == [ IMEI |-> p.IMEI, COMMAND_ID |-> p.CommandID ]

\* the message of the whole packet (lines 189-199)
PacketMessage(p) == [ packet |-> p ]

\* lines 134-186: one message per record, or the packet info
BatchOfRecords(p) ==
    IF Len(p.Records) = 0 THEN << PacketInfoMessage(p) >>
    ELSE [ i \in 1..Len(p.Records) |-> RecordMessage(p, i) ]

\* lines 121-131: the body is trimmed; an empty body is an error, any other
\* is handed to ParseRuptelaPacketWithOptions with the processor's options
ProcessStart ==
    /\ fn.pc = "start"
    /\ IF TrimSpace(fn.msg) = ""
       THEN /\ fn' = [fn EXCEPT !.pc = "returned", !.err = "empty input data"]
            /\ UNCHANGED decodeVars
       ELSE /\ fn' = [fn EXCEPT !.pc = "parse"]
            /\ hexStr' = << TrimSpace(fn.msg) >>
            /\ opts' = << << fn.opts >> >>
            /\ data' = << << >> >>
            /\ idx' = << 0 >>
            /\ pkt' = << ZeroPacket >>
            /\ rec' = << 0 >>
            /\ r' = << ZeroRecord >>
            /\ size' = << 1 >>
            /\ ioCount' = << 0 >>
            /\ j' = << 0 >>
            /\ ioID' = << 0 >>
            /\ b' = << 0 >>
            /\ ioValBytes' = << << >> >>
            /\ pc' = << "start" >>
            /\ ret' = << NoReturn >>

\* lines 131-205: the decoder has returned; its error is wrapped, its packet
\* becomes the batch
ProcessReturn ==
    /\ fn.pc = "parse"
    /\ pc[1] = "returned"
    /\ IF ~ret[1].pktNil /\ ret[1].err.type = "nil"
       THEN fn' = [fn EXCEPT !.pc = "returned",
                             !.batch = IF fn.batchMode
                                       THEN BatchOfRecords(ret[1].pkt)
                                       ELSE << PacketMessage(ret[1].pkt) >>]
       ELSE fn' = [fn EXCEPT !.pc = "returned",
                             !.err = "failed to parse ruptela packet: %w"]
    /\ UNCHANGED decodeVars

\* lines 115-119: a panic of the decoder is recovered and raised again
ProcessPanic ==
    /\ fn.pc = "parse"
    /\ pc[1] = "panicked"
    /\ fn' = [fn EXCEPT !.pc = "panicked"]
    /\ UNCHANGED decodeVars

NextProcess ==
    \/ ProcessStart
    \/ ProcessReturn
    \/ ProcessPanic
    \/ Next

\* message bodies: nothing but white space, and inputs of the decoder as
\* they are, with white space around them, and with a final line feed
ProcessBodies ==
    { "", " ", "\n", " \t\r\n " }
    \union CoreInputs
    \union UNION { { h, "  " \o h \o "\t", h \o "\n" } :
                     h \in { hexEncodeUpper(p) : p \in ValidPackets } }

\* the options a processor is configured with: the defaults of lines 17-40,
\* validation switched off, and no size limit
ProcessOptions ==
    { DefaultParserOptions,
      [DefaultParserOptions EXCEPT !.SkipValidation = TRUE],
      [DefaultParserOptions EXCEPT !.ValidateCRC = FALSE, !.ValidateLength = FALSE],
      [DefaultParserOptions EXCEPT !.MaxPacketSize = 0] }

\* the bodies under every configuration, and the largest packet with a
\* final line feed under the configuration without a size limit
ProcessScenarios ==
    (ProcessBodies \X ProcessOptions \X BOOLEAN)
    \union { << LargePacket(65534) \o "\n",
                [DefaultParserOptions EXCEPT !.MaxPacketSize = 0], m >> :
                m \in BOOLEAN }

\* a processor and a message; no decode call yet
InitProcess ==
    /\ Start(<< >>, << >>)
    /\ \E sc \in ProcessScenarios :
         fn = [ pc |-> "start", msg |-> sc[1], opts |-> sc[2],
                batchMode |-> sc[3], batch |-> << >>, err |-> "" ]

SpecProcess == InitProcess /\ [][NextProcess]_vars

(***************************************************************************)
(* EncodeIMEI and calculateCheckDigit                                      *)
(* (src/internal/nameindexer/nameindexer.go lines 252-281), one pass of    *)
(* the summing loop per step.  fn holds the call.  No decode call is in    *)
(* progress.                                                               *)
(***************************************************************************)
subjectLenth == 40

DecimalDigits == << "0", "1", "2", "3", "4", "5", "6", "7", "8", "9" >>

\* int(r - '0') for the characters that occur in the inputs
RuneMinusZero(ch) ==
    CASE ch = "0" -> 0  [] ch = "1" -> 1  [] ch = "2" -> 2  [] ch = "3" -> 3
      [] ch = "4" -> 4  [] ch = "5" -> 5  [] ch = "6" -> 6  [] ch = "7" -> 7
      [] ch = "8" -> 8  [] ch = "9" -> 9
      [] ch = ":" -> 10 [] ch = "A" -> 17

\* strconv.Itoa of a number that is not negative
RECURSIVE Itoa(_)
Itoa(n) ==
    IF n < 10 THEN DecimalDigits[n + 1]
    ELSE Itoa(n \div 10) \o DecimalDigits[(n % 10) + 1]

\* fmt.Sprintf("IMEI%0*s", subjectLenth-4, s): s padded on the left with
\* zeros to the width, and left as it is when it is as long or longer
SprintfIMEI(s) ==
    LET width == subjectLenth - 4
        zeros == String([ i \in 1..width |-> "0" ])
    IN  IF Len(s) >= width THEN "IMEI" \o s
        ELSE "IMEI" \o SubSeq(zeros, 1, width - Len(s)) \o s

\* lines 254-256 for a string of 14 characters: calculateCheckDigit is
\* called, and its first loop (lines 263-266) fills digits
EncodeIMEICall ==
    /\ fn.pc = "EncodeIMEI"
    /\ Len(fn.imei) = 14
    /\ fn' = [fn EXCEPT
                !.pc = "sum",
                !.digits = [ i \in 1..Len(fn.imei) |->
                               RuneMinusZero(SubSeq(fn.imei, i, i)) ]]
    /\ UNCHANGED decodeVars

\* lines 254-258 for a string of any other length
EncodeIMEIOther ==
    /\ fn.pc = "EncodeIMEI"
    /\ Len(fn.imei) # 14
    /\ fn' = [fn EXCEPT !.pc = "returned",
                        !.out = SprintfIMEI(fn.fullIMEI)]
    /\ UNCHANGED decodeVars

\* the body of the summing loop, lines 269-277
CheckDigitLoop ==
    /\ fn.pc = "sum"
    /\ fn.i < Len(fn.digits)
    /\ LET d       == fn.digits[fn.i + 1]
           doubled == IF d * 2 > 9 THEN d * 2 - 9 ELSE d * 2
           digit   == IF fn.i % 2 = 1 THEN doubled ELSE d
       IN  fn' = [fn EXCEPT !.digits[fn.i + 1] = digit,
                            !.sum = fn.sum + digit,
                            !.i = fn.i + 1]
    /\ UNCHANGED decodeVars

\* lines 279-280, then lines 256-258 of the caller
CheckDigitReturn ==
    /\ fn.pc = "sum"
    /\ fn.i >= Len(fn.digits)
    /\ LET checkDigit == 10 - (fn.sum % 10)
       IN  fn' = [fn EXCEPT
                    !.pc = "returned",
                    !.check = Itoa(checkDigit),
                    !.fullIMEI = fn.imei \o Itoa(checkDigit),
                    !.out = SprintfIMEI(fn.imei \o Itoa(checkDigit))]
    /\ UNCHANGED decodeVars

NextEncodeIMEI ==
    \/ EncodeIMEICall
    \/ EncodeIMEIOther
    \/ CheckDigitLoop
    \/ CheckDigitReturn

\* strings of 14 decimal digits: an IMEI without its check digit, and every
\* digit at every place among zeros and among nines
IMEIBodies ==
    { "35209900176148", "49015420323751" }
    \union { String([ i \in 1..14 |->
                        DecimalDigits[(IF i = k THEN x ELSE y) + 1] ]) :
               k \in 1..14, x \in 0..9, y \in { 0, 9 } }

\* strings of other lengths, and a string of 14 characters that are not
\* all digits
IMEIOthers ==
    { "", "7", "3520990017614", "352099001761481", "4901542032375181",
      "000000000000000000000000000000000000",
      "0000000000000000000000000000000000000",
      "3520990017614A", "35209900:76148" }

InitEncodeIMEI ==
    /\ Start(<< >>, << >>)
    /\ \E s \in IMEIBodies \union IMEIOthers :
         fn = [ pc |-> "EncodeIMEI", imei |-> s, fullIMEI |-> s,
                digits |-> << >>, i |-> 0, sum |-> 0, check |-> "",
                out |-> "" ]

SpecEncodeIMEI == InitEncodeIMEI /\ [][NextEncodeIMEI]_vars

(***************************************************************************)
(* The h3 functions that take a resolution (src/unnamed/part_001):         *)
(* h3_lat_lng_to_hex (lines 32-40), h3_hex_parent_id (lines 127-138) and   *)
(* h3_hex_parent_to_geo (lines 160-173).  fn holds the call of the         *)
(* function the registration returns.  The h3 library is outside the       *)
(* repository: what it computes is kept as the call made to it, and        *)
(* cell.IsValid holds for the cells the tests know as valid.               *)
(***************************************************************************)
ResolutionFunctions ==
    { "h3_lat_lng_to_hex", "h3_hex_parent_id", "h3_hex_parent_to_geo" }

\* the hex ids of the tests (src/internal/dimovss/dimovss.go), the first
\* one a valid cell
HexIDs == { "852a100bfffffff", "852a100", "852a100b", "0" }

IsValid(hex_id) == hex_id = "852a100bfffffff"

\* the condition of lines 33, 129 and 162
ResolutionRefused(resolution) == resolution < 0 /\ resolution < 15

\* lines 33-35, 129-131, 162-164
H3CheckResolution ==
    /\ fn.pc = "resolution"
    /\ fn' = IF ResolutionRefused(fn.resolution)
             THEN [fn EXCEPT !.pc = "returned",
                             !.err = "resolution should be between 0 and 15"]
             ELSE [fn EXCEPT !.pc = "cell"]
    /\ UNCHANGED decodeVars

\* lines 36-38
H3LatLngToCell ==
    /\ fn.pc = "cell"
    /\ fn.name = "h3_lat_lng_to_hex"
    /\ fn' = [fn EXCEPT !.pc = "returned",
                        !.calls = << [ call |-> "LatLngToCell",
                                       lat |-> fn.lat, lng |-> fn.lng,
                                       resolution |-> fn.resolution ] >>]
    /\ UNCHANGED decodeVars

\* lines 132-136, 165-170
H3IndexFromString ==
    /\ fn.pc = "cell"
    /\ fn.name # "h3_lat_lng_to_hex"
    /\ fn' = IF ~IsValid(fn.hex_id)
             THEN [fn EXCEPT !.pc = "returned",
                             !.calls = << [ call |-> "IndexFromString",
                                            hex_id |-> fn.hex_id ] >>,
                             !.err = "failed to parse hex id"]
             ELSE [fn EXCEPT !.pc = "parent",
                             !.calls = << [ call |-> "IndexFromString",
                                            hex_id |-> fn.hex_id ] >>]
    /\ UNCHANGED decodeVars

\* lines 137, 171-172
H3Parent ==
    /\ fn.pc = "parent"
    /\ fn' = [fn EXCEPT !.pc = "returned",
                        !.calls = Append(fn.calls,
                                    [ call |-> "Parent",
                                      hex_id |-> fn.hex_id,
                                      resolution |-> fn.resolution ])]
    /\ UNCHANGED decodeVars

NextH3 ==
    \/ H3CheckResolution
    \/ H3LatLngToCell
    \/ H3IndexFromString
    \/ H3Parent

\* resolutions inside 0..15, a margin below it and above it, and two far off
ResolutionMargin == 3
Resolutions ==
    ((0 - ResolutionMargin)..(15 + ResolutionMargin)) \union { -200, 200 }

InitH3 ==
    /\ Start(<< >>, << >>)
    /\ \E name \in ResolutionFunctions, res \in Resolutions :
         \/ /\ name = "h3_lat_lng_to_hex"
            /\ \E lat \in { "40.776676", "0", "-90" },
                  lng \in { "-73.971321", "0", "180" } :
                 fn = [ pc |-> "resolution", name |-> name, lat |-> lat,
                        lng |-> lng, hex_id |-> "", resolution |-> res,
                        calls |-> << >>, err |-> "" ]
         \/ /\ name # "h3_lat_lng_to_hex"
            /\ \E hex_id \in HexIDs :
                 fn = [ pc |-> "resolution", name |-> name, lat |-> "",
                        lng |-> "", hex_id |-> hex_id, resolution |-> res,
                        calls |-> << >>, err |-> "" ]

SpecH3 == InitH3 /\ [][NextH3]_vars

(***************************************************************************)
(* Properties.                                                             *)
(***************************************************************************)
Ended(c) == pc[c] \in { "returned", "panicked" }

\* the call returned this kind of error
ReturnedError(c, type) == pc[c] = "returned" /\ ret[c].err.type = type

\* the call returned a ValidationError on this field
Rejected(c, field) ==
    /\ ReturnedError(c, "ValidationError")
    /\ ret[c].err.Field = field

\* the input decoded to a buffer of at least 13 bytes: the call is past
\* lines 173-198
Decoded(c) == pc[c] # "start" /\ Len(data[c]) >= 13

\* the big-endian 16-bit length field and the value of the final two bytes
DeclaredLength(d) == d[1] * 256 + d[2]
TrailingCRC(d) == d[Len(d) - 1] * 256 + d[Len(d)]

\* bytes [2, 2+declared_length) of the buffer
CRCRegion(d) == SubSeq(d, 3, 2 + DeclaredLength(d))

\* no field of the envelope or of a record has been read
NothingRead(c) == idx[c] = 0 /\ pkt[c] = ZeroPacket

\* only the length field has been read
OnlyLengthRead(c) ==
    /\ idx[c] = 2
    /\ pkt[c].IMEI = ZeroPacket.IMEI
    /\ pkt[c].CommandID = 0
    /\ pkt[c].NumRecords = 0
    /\ pkt[c].Records = << >>

\* the size limit does not reject the buffer
WithinSizeLimit(c) ==
    ~(O(c).MaxPacketSize > 0 /\ Len(data[c]) > O(c).MaxPacketSize)

\* C1: whatever the input and the policy, a call never panics: it ends by
\* returning.
C1_NeverPanics == \A c \in Calls : pc[c] # "panicked"

\* C2: a call that has ended has returned, and returned exactly one of a
\* packet with no error or an error with no packet.
C2_AllOrNothing ==
    \A c \in Calls :
        Ended(c) =>
            /\ pc[c] = "returned"
            /\ \/ ~ret[c].pktNil /\ ret[c].err.type = "nil"
               \/ ret[c].pktNil /\ ret[c].err.type # "nil"

\* an input that is hex for fewer than 13 bytes, spaces aside
DecodesShort(h) ==
    LET s == stripSpaces(h)
    IN  /\ Len(s) % 2 = 0
        /\ \A i \in 1..Len(s) : fromHexChar(s[i]) >= 0
        /\ Len(s) \div 2 < 13

\* C3: an input that decodes to fewer than 13 bytes is rejected with the
\* ParseError "packet too short" under every policy, and nothing is read
\* from it.
C3_TooShort ==
    \A c \in Calls :
        (DecodesShort(hexStr[c]) /\ pc[c] # "start") =>
            /\ ReturnedError(c, "ParseError")
            /\ ret[c].err.Message = "packet too short"
            /\ ret[c].pktNil
            /\ NothingRead(c)

\* a 12-byte input was rejected with every check switched off or disabled
C3_Witness ==
    \E c \in Calls :
        /\ DecodesShort(hexStr[c])
        /\ Len(hexStr[c]) = 24
        /\ pc[c] = "returned"
        /\ O(c).SkipValidation
        /\ O(c).MaxPacketSize <= 0

\* C4: with checksum validation on, an input that passed the size and the
\* length check and whose region [2, 2+declared_length) lies inside the
\* buffer is rejected on field "crc" exactly when its final two bytes differ
\* from the CRC16 of that region, and nothing beyond the length field is
\* read before.
C4_CRCDecides ==
    \A c \in Calls :
        ( /\ Decoded(c)
          /\ pc[c] \notin { "size", "length", "crc" }
          /\ ~O(c).SkipValidation
          /\ O(c).ValidateCRC
          /\ WithinSizeLimit(c)
          /\ (O(c).ValidateLength => DeclaredLength(data[c]) = Len(data[c]) - 4)
          /\ DeclaredLength(data[c]) + 2 <= Len(data[c]) ) =>
            /\ Rejected(c, "crc")
                 <=> TrailingCRC(data[c]) # CRC16CCITT(CRCRegion(data[c]))
            /\ Rejected(c, "crc") => OnlyLengthRead(c)

\* C5: with length validation on, an input of at least 13 bytes that passes
\* the size limit is rejected on field "packet_length" exactly when its
\* length field differs from the byte count minus 4, before the checksum,
\* the identifier, the command or a record is read.
C5_LengthDecides ==
    \A c \in Calls :
        ( /\ Decoded(c)
          /\ pc[c] \notin { "size", "length" }
          /\ ~O(c).SkipValidation
          /\ O(c).ValidateLength
          /\ WithinSizeLimit(c) ) =>
            /\ Rejected(c, "packet_length")
                 <=> DeclaredLength(data[c]) # Len(data[c]) - 4
            /\ Rejected(c, "packet_length") => OnlyLengthRead(c) /\ pkt[c].CRC = 0

\* a packet with a good checksum was rejected for its length field
C5_Witness ==
    \E c \in Calls :
        /\ Rejected(c, "packet_length")
        /\ O(c).ValidateCRC
        /\ DeclaredLength(data[c]) + 2 <= Len(data[c])
        /\ TrailingCRC(data[c]) # 0

\* the declared record count of a command 1 or 68 packet has been read
CountRead(c) == pkt[c].CommandID \in { 1, 68 } /\ idx[c] >= 13

\* nothing after the record count has been read
NoRecordDecoded(c) ==
    /\ idx[c] = 13
    /\ pkt[c].Records = << >>
    /\ r[c] = ZeroRecord

\* C8 as stated, for every maximum M: with validation on, a command 1 or 68
\* packet whose record count was read and exceeds MaxRecords is rejected on
\* field "num_records" and no record of it is decoded.
C8_AnyLimit ==
    \A c \in Calls :
        ( /\ pc[c] # "start"
          /\ ~O(c).SkipValidation
          /\ CountRead(c)
          /\ pkt[c].NumRecords > O(c).MaxRecords ) =>
            Rejected(c, "num_records") /\ NoRecordDecoded(c)

\* C8 for a maximum M > 0: with validation on, a command 1 or 68 packet
\* whose record count was read and exceeds MaxRecords is rejected on field
\* "num_records" and no record of it is decoded.
C8_RecordLimit ==
    \A c \in Calls :
        ( /\ pc[c] # "start"
          /\ ~O(c).SkipValidation
          /\ O(c).MaxRecords > 0
          /\ CountRead(c)
          /\ pkt[c].NumRecords > O(c).MaxRecords ) =>
            Rejected(c, "num_records") /\ NoRecordDecoded(c)

\* a packet with a good checksum and two records was rejected by a limit of 1
C8_Witness ==
    \E c \in Calls :
        /\ Rejected(c, "num_records")
        /\ CountRead(c)
        /\ O(c).ValidateCRC
        /\ O(c).MaxRecords = 1
        /\ pkt[c].NumRecords = 2

\* call c reads the element count of a width class in this step
ReadsIOCount(c) ==
    /\ pc[c] = "iocount"
    /\ idx'[c] = idx[c] + 1

\* what the step that reads an element count must do under the limit
IOLimitStep(c) ==
    IF Len(r[c].IOElements) + data[c][idx[c] + 1] > O(c).MaxIOElements
    THEN /\ pc'[c] = "returned"
         /\ ret'[c].pktNil
         /\ ret'[c].err.type = "ValidationError"
         /\ ret'[c].err.Field = "io_elements"
         /\ r'[c] = r[c]
    ELSE /\ pc'[c] # "returned"
         /\ ret'[c] = ret[c]

\* C9 as stated, for every maximum E: with validation on, the step that
\* reads an element count c fails on field "io_elements", before any element
\* of the group is read, when the elements of the record so far plus c
\* exceed MaxIOElements, and raises no error otherwise.
C9_AnyLimit ==
    [][ \A c \in Calls :
          (ReadsIOCount(c) /\ ~O(c).SkipValidation) => IOLimitStep(c) ]_vars

\* C9 for a maximum E > 0: with validation on, the step that reads an
\* element count c fails on field "io_elements", before any element of the
\* group is read, when the elements of the record so far plus c exceed
\* MaxIOElements, and raises no error otherwise; no other step raises an
\* "io_elements" error.
C9_IOLimit ==
    [][ \A c \in Calls :
          /\ (ReadsIOCount(c) /\ ~O(c).SkipValidation /\ O(c).MaxIOElements > 0)
                => IOLimitStep(c)
          /\ (ret'[c] # ret[c] /\ ret'[c].err.Field = "io_elements")
                => ReadsIOCount(c) ]_vars

\* a group was rejected for the running total, not for its own count
C9_Witness ==
    \E c \in Calls :
        /\ Rejected(c, "io_elements")
        /\ Len(r[c].IOElements) >= 1
        /\ ioCount[c] <= O(c).MaxIOElements

\* C10: with validation on, an input of at least 13 bytes is rejected on
\* field "packet_size" exactly when MaxPacketSize > 0 and the byte count
\* exceeds it (a limit of 0 or below rejects nothing), before any field is
\* read.
C10_SizeDecides ==
    \A c \in Calls :
        ( /\ Decoded(c)
          /\ pc[c] # "size"
          /\ ~O(c).SkipValidation ) =>
            /\ Rejected(c, "packet_size")
                 <=> (O(c).MaxPacketSize > 0 /\ Len(data[c]) > O(c).MaxPacketSize)
            /\ Rejected(c, "packet_size") => NothingRead(c)

\* a packet one byte over the limit was rejected for its size
C10_Witness ==
    \E c \in Calls :
        /\ Rejected(c, "packet_size")
        /\ Len(data[c]) = O(c).MaxPacketSize + 1

\* the inputs of the two calls differ in the four hex digits of the length
\* field only
DifferInLengthOnly(h1, h2) ==
    /\ Len(h1) = Len(h2)
    /\ Len(h1) >= 4
    /\ SubSeq(h1, 5, Len(h1)) = SubSeq(h2, 5, Len(h2))
    /\ h1 # h2

\* both calls have returned
BothReturned == pc[1] = "returned" /\ pc[2] = "returned"

\* both succeeded with packets equal but for Length, or both failed with the
\* same error (kind, field, value, message, arguments and offset)
SameOutcomeButLength ==
    /\ ret[1].pktNil = ret[2].pktNil
    /\ ret[1].err = ret[2].err
    /\ [ret[1].pkt EXCEPT !.Length = 0] = [ret[2].pkt EXCEPT !.Length = 0]

\* C6 as stated: under one policy with ValidateLength false or SkipValidation
\* true, two inputs that differ in the length field only get the same
\* outcome, whatever ValidateCRC is.
C6_LengthIgnored ==
    ( /\ BothReturned
      /\ DifferInLengthOnly(hexStr[1], hexStr[2])
      /\ O(1) = O(2)
      /\ O(1).SkipValidation \/ ~O(1).ValidateLength ) =>
        SameOutcomeButLength

\* C6 without checksum validation: under one policy with SkipValidation
\* true, or with ValidateLength and ValidateCRC both false, two inputs that
\* differ in the length field only get the same outcome.
C6_LengthIgnoredWithoutCRC ==
    ( /\ BothReturned
      /\ DifferInLengthOnly(hexStr[1], hexStr[2])
      /\ O(1) = O(2)
      /\ O(1).SkipValidation \/ (~O(1).ValidateLength /\ ~O(1).ValidateCRC) ) =>
        SameOutcomeButLength

\* with validation on and both switches off, a packet and its copy with a
\* length field of 0 were both decoded, to packets that differ in Length
C6_Witness ==
    /\ BothReturned
    /\ DifferInLengthOnly(hexStr[1], hexStr[2])
    /\ O(1) = O(2)
    /\ ~O(1).SkipValidation
    /\ ~ret[1].pktNil /\ ~ret[2].pktNil
    /\ Len(ret[1].pkt.Records) = 1
    /\ ret[1].pkt.Length # ret[2].pkt.Length

\* C7: with SkipValidation true, one input gets the same result under every
\* setting of the other policy fields, and an error it gets is a ParseError.
C7_SkipIsStructural ==
    ( /\ BothReturned
      /\ hexStr[1] = hexStr[2]
      /\ O(1).SkipValidation /\ O(2).SkipValidation ) =>
        /\ ret[1] = ret[2]
        /\ ret[1].err.type \in { "nil", "ParseError" }

\* a packet that breaks every limit and the length check of the second
\* policy was decoded under both
C7_Witness ==
    /\ BothReturned
    /\ hexStr[1] = hexStr[2]
    /\ O(1).SkipValidation /\ O(2).SkipValidation
    /\ O(1) # O(2)
    /\ O(2).ValidateLength /\ O(2).ValidateCRC
    /\ ~ret[2].pktNil
    /\ ret[2].pkt.Length # Len(data[2]) - 4
    /\ Len(data[2]) > O(2).MaxPacketSize

\* the call returned a packet
Succeeded(c) == pc[c] = "returned" /\ ~ret[c].pktNil

\* the bytes of a record on the wire, as its decoded form tells: the fixed
\* fields, four count bytes, and identifier and value of every element
RECURSIVE ElementsSize(_, _)
ElementsSize(cmd, els) ==
    IF els = << >> THEN 0
    ELSE (IF cmd = 68 THEN 2 ELSE 1) + Head(els).Size + ElementsSize(cmd, Tail(els))

FixedSize(cmd) == IF cmd = 68 THEN 25 ELSE 23
RecordSize(cmd, rr) == FixedSize(cmd) + 4 + ElementsSize(cmd, rr.IOElements)

\* the offset of record k of packet p in the buffer
RECURSIVE WireOffset(_, _)
WireOffset(p, k) ==
    IF k = 1 THEN 13
    ELSE WireOffset(p, k - 1) + RecordSize(p.CommandID, p.Records[k - 1])

\* the elements of a width class in a record
ElementsOfSize(rr, w) == SelectSeq(rr.IOElements, LAMBDA e : e.Size = w)

\* C11: a returned packet has as many records as its NumRecords field says,
\* and its k-th record is the k-th record of the buffer: its timestamp and
\* the count of its first element group are the bytes at the k-th record's
\* place.
C11_RecordsInWireOrder ==
    \A c \in Calls :
        Succeeded(c) =>
            LET p == ret[c].pkt
            IN  /\ p.NumRecords = Len(p.Records)
                /\ \A k \in 1..Len(p.Records) :
                     LET off == WireOffset(p, k)
                     IN  /\ off + FixedSize(p.CommandID) + 1 <= Len(data[c])
                         /\ p.Records[k].Timestamp
                              = Uint32(SubSeq(data[c], off + 1, off + 4))
                         /\ Len(ElementsOfSize(p.Records[k], 1))
                              = data[c][off + FixedSize(p.CommandID) + 1]

\* a packet of two records with different element groups was decoded
C11_Witness ==
    \E c \in Calls :
        /\ Succeeded(c)
        /\ ret[c].pkt.NumRecords = 2
        /\ Len(ret[c].pkt.Records[1].IOElements) = 1
        /\ ret[c].pkt.Records[1].IOElements[1].Size = 1
        /\ ret[c].pkt.Records[2].IOElements[1].Size = 2

\* h2 is h1 without its last byte (two hex digits)
IsTruncationOf(h2, h1) ==
    /\ Len(h1) >= 4
    /\ h2 = SubSeq(h1, 1, Len(h1) - 2)

\* C12: when an input is decoded to a packet, the same input without its
\* last byte, under the same policy, is rejected with a ParseError.
C12_TruncationIsParseError ==
    ( /\ BothReturned
      /\ opts[1] = opts[2]
      /\ IsTruncationOf(hexStr[2], hexStr[1])
      /\ Succeeded(1) ) =>
        ReturnedError(2, "ParseError")

\* C13: with checksum validation on, an input that reaches the checksum
\* step with a region [2, 2+declared_length) that exceeds the buffer is
\* rejected with a ValidationError "invalid packet length".
C13_RegionOutsideIsValidationError ==
    \A c \in Calls :
        ( /\ Decoded(c)
          /\ pc[c] \notin { "size", "length", "crc" }
          /\ ~O(c).SkipValidation
          /\ O(c).ValidateCRC
          /\ WithinSizeLimit(c)
          /\ (O(c).ValidateLength => DeclaredLength(data[c]) = Len(data[c]) - 4)
          /\ DeclaredLength(data[c]) + 2 > Len(data[c]) ) =>
            /\ ReturnedError(c, "ValidationError")
            /\ ret[c].err.Message = "invalid packet length: %d"

\* a CRC16 computed bit by bit: reflected polynomial 0x8408, initial value
\* 0, no final XOR
ReferenceBit(crc) ==
    IF crc % 2 = 1 THEN Xor(crc \div 2, 33800) ELSE crc \div 2

ReferenceByte(crc, byte) ==
    ReferenceBit(ReferenceBit(ReferenceBit(ReferenceBit(
    ReferenceBit(ReferenceBit(ReferenceBit(ReferenceBit(Xor(crc, byte)))))))))

\* bytes lo..hi in order, starting from crc
RECURSIVE ReferenceRange(_, _, _, _)
ReferenceRange(bytes, lo, hi, crc) ==
    IF lo = hi THEN ReferenceByte(crc, bytes[lo])
    ELSE LET left == ReferenceRange(bytes, lo, (lo + hi) \div 2, crc)
         IN  IF left >= 0
             THEN ReferenceRange(bytes, ((lo + hi) \div 2) + 1, hi, left)
             ELSE left

ReferenceCRC16(bytes) ==
    IF Len(bytes) = 0 THEN 0 ELSE ReferenceRange(bytes, 1, Len(bytes), 0)

\* C14: the checksum CRC16CCITT returns for a byte sequence is the bit by bit
\* CRC16 of it (0 for the empty sequence), and the table entry of every byte
\* is the 8-step reduction of that byte.
C14_TableMatchesReference ==
    fn.pc = "returned" =>
        /\ fn.crc = ReferenceCRC16(fn.data)
        /\ CRC16CCITT(fn.data) = fn.crc
        /\ Len(fn.data) = 0 => fn.crc = 0
        /\ Len(fn.data) = 1 =>
             crc16Table[fn.data[1] + 1] = ReferenceByte(0, fn.data[1])

\* the checksum of "123456789" was computed, and it is 0x2189
C14_Witness ==
    /\ fn.pc = "returned"
    /\ fn.data = << 49, 50, 51, 52, 53, 54, 55, 56, 57 >>
    /\ fn.crc = 8585

\* the first check, in the order of C15, that the input of call c fails
\* under its policy ("later" when it passes them all)
FirstFailure(c) ==
    LET s == stripSpaces(hexStr[c])
        d == data[c]
    IN  IF Len(s) % 2 # 0 THEN "even length"
        ELSE IF \E i \in 1..Len(s) : fromHexChar(s[i]) < 0 THEN "hex characters"
        ELSE IF Len(d) < 13 THEN "minimum size"
        ELSE IF O(c).SkipValidation THEN "later"
        ELSE IF O(c).MaxPacketSize > 0 /\ Len(d) > O(c).MaxPacketSize
             THEN "maximum size"
        ELSE IF O(c).ValidateLength /\ DeclaredLength(d) # Len(d) - 4
             THEN "declared length"
        ELSE IF /\ O(c).ValidateCRC
                /\ \/ DeclaredLength(d) + 2 > Len(d)
                   \/ TrailingCRC(d) # CRC16CCITT(CRCRegion(d))
             THEN "checksum"
        ELSE IF /\ d[11] \in { 1, 68 }
                /\ O(c).MaxRecords > 0
                /\ d[13] > O(c).MaxRecords
             THEN "record count"
        ELSE "later"

\* the check that the error returned by call c comes from
FailedCheck(c) ==
    LET e == ret[c].err
    IN  CASE e.Message = "input hex string must have even length" -> "even length"
          [] e.Message = "invalid hex string: %v" -> "hex characters"
          [] e.Message = "packet too short" -> "minimum size"
          [] e.Field = "packet_size" -> "maximum size"
          [] e.Field = "packet_length" -> "declared length"
          [] e.Field = "crc" \/ e.Message = "invalid packet length: %d" -> "checksum"
          [] e.Field = "num_records" -> "record count"
          [] OTHER -> "later"

\* C15: a call returns the error of the first check that its input fails, in
\* the order even length, hex characters, minimum size, maximum size,
\* declared length, checksum, record count, records; when the input passes
\* them all, an error comes from the records.
C15_FirstFailureReported ==
    \A c \in Calls :
        pc[c] = "returned" =>
            /\ FailedCheck(c) = FirstFailure(c)
            /\ FirstFailure(c) # "later" => ret[c].pktNil

\* an input with a wrong length field, a wrong checksum and a record that
\* lost its tail was rejected for the length field, or for the checksum when
\* the length is not validated
C15_Witness ==
    \E c \in Calls :
        /\ pc[c] = "returned"
        /\ Len(data[c]) >= 13
        /\ FirstFailure(c) = "checksum"
        /\ ret[c].err.Field = "crc"
        /\ data[c][11] \in { 1, 68 }
        /\ data[c][13] >= 1
        /\ Len(data[c]) < 13 + FixedSize(data[c][11]) + 4

\* the command byte has been read and is neither 1 nor 68
OtherCommandRead(c) == idx[c] >= 11 /\ pkt[c].CommandID \notin { 1, 68 }

\* C16: once the command byte of a packet with a command other than 1 and 68
\* is read, nothing more is read and the call succeeds with no records: the
\* cursor stays at 11, RecordsFlag and NumRecords are 0, Records is empty.
C16_OtherCommandsHaveNoRecords ==
    \A c \in Calls :
        OtherCommandRead(c) =>
            /\ pc[c] \in { "return", "returned" }
            /\ idx[c] = 11
            /\ pkt[c].CommandID = data[c][11]
            /\ pkt[c].RecordsFlag = 0
            /\ pkt[c].NumRecords = 0
            /\ pkt[c].Records = << >>
            /\ pc[c] = "returned" => Succeeded(c) /\ ret[c].pkt = pkt[c]

\* a command 255 packet with the bytes of a record after the command byte
\* was decoded
C16_Witness ==
    \E c \in Calls :
        /\ OtherCommandRead(c)
        /\ Succeeded(c)
        /\ ret[c].pkt.CommandID = 255
        /\ Len(data[c]) > 13 + 27
        /\ ~O(c).SkipValidation /\ O(c).ValidateCRC /\ O(c).ValidateLength

\* h2 is h1 with space characters put in; h1 has none
HasSpacesInserted(h2, h1) ==
    /\ h1 # h2
    /\ \A i \in 1..Len(h1) : SubSeq(h1, i, i) # " "
    /\ SelectSeq(Chars(h2), LAMBDA ch : ch # " ") = Chars(h1)

\* C17: under one policy, an input and the same input with spaces put in at
\* any places get the same result: the same packet or the same error.
C17_SpacesAreStripped ==
    ( /\ BothReturned
      /\ O(1) = O(2)
      /\ HasSpacesInserted(hexStr[2], hexStr[1]) ) =>
        ret[1] = ret[2]

\* a packet written with spaces between and inside its bytes was decoded
C17_Witness ==
    /\ BothReturned
    /\ O(1) = O(2)
    /\ HasSpacesInserted(hexStr[2], hexStr[1])
    /\ Succeeded(2)
    /\ Len(ret[2].pkt.Records) = 1
    /\ SubSeq(hexStr[2], 4, 4) = " " /\ SubSeq(hexStr[2], 8, 8) = " "

(***************************************************************************)
(* The byte cursor.                                                        *)
(***************************************************************************)
\* the positions of the decoder that call readBytes
ReadPositions ==
    { "length", "imei", "cmd", "flag", "numrec", "timestamp", "tsext", "rext",
      "priority", "lon", "lat", "alt", "angle", "sat", "speed", "hdop",
      "eventio", "iocount", "ioid", "ioval" }

\* the number of bytes the call at position pc[c] asks the cursor for
ReadSize(c) ==
    CASE pc[c] \in { "length", "alt", "angle", "speed" } -> 2
      [] pc[c] = "imei" -> 8
      [] pc[c] \in { "timestamp", "lon", "lat" } -> 4
      [] pc[c] \in { "eventio", "ioid" } -> IF pkt[c].CommandID = 68 THEN 2 ELSE 1
      [] OTHER -> 1

\* call c takes a step
Steps(c) == pc'[c] # pc[c] \/ idx'[c] # idx[c]

\* the bytes [offset, offset+n) of the buffer
Window(c, n) == [ i \in 1..n |-> data[c][idx[c] + i] ]

\* C18: a cursor read of n bytes fails exactly when offset + n exceeds the
\* buffer length; a failed read leaves the offset where it was and its
\* error carries n, the remaining size and the offset; a successful read
\* returns the bytes [offset, offset+n) and advances the offset by n; the
\* offset stays within 0..len(data) and never decreases.
C18_CursorContract ==
    [][\A c \in Calls :
         /\ \A n \in { 1, 2, 4, 8 } :
              LET rb == readBytes(c, n)
              IN  /\ rb.err <=> idx[c] + n > Len(data[c])
                  /\ rb.err => /\ rb.idx = idx[c]
                               /\ rb.inner = << n, Len(data[c]) - idx[c], idx[c] >>
                  /\ ~rb.err => /\ ~rb.panic
                                /\ rb.result = Window(c, n)
                                /\ rb.idx = idx[c] + n
         /\ idx'[c] >= idx[c]
         /\ 0 <= idx'[c]
         /\ idx'[c] <= Len(data'[c])
         /\ (pc[c] \in ReadPositions /\ Steps(c)) =>
              IF idx[c] + ReadSize(c) > Len(data[c])
              THEN /\ idx'[c] = idx[c]
                   /\ pc'[c] = "returned"
                   /\ ret'[c].pktNil
                   /\ ret'[c].err.type = "ParseError"
                   /\ ret'[c].err.Offset = idx[c]
                   /\ ret'[c].err.Inner =
                          << ReadSize(c), Len(data[c]) - idx[c], idx[c] >>
              ELSE /\ idx'[c] = idx[c] + ReadSize(c)
                   /\ pc[c] = "length" => pkt'[c].Length = Uint16(Window(c, 2))
                   /\ pc[c] = "ioval" =>
                          ioValBytes'[c] = ioValBytes[c] \o Window(c, 1)
         /\ (pc[c] \notin ReadPositions) => idx'[c] = idx[c]
      ]_vars

\* a two-byte read inside a record has failed one byte before the end of
\* the buffer
C18_Witness ==
    \E c \in Calls :
        /\ ReturnedError(c, "ParseError")
        /\ ret[c].err.Inner # <<>>
        /\ ret[c].err.Inner[1] = 2
        /\ ret[c].err.Inner[2] = 1
        /\ ret[c].err.Offset = idx[c]
        /\ idx[c] > 13
        /\ idx[c] = Len(data[c]) - 1

(***************************************************************************)
(* The layout of a record on the wire.                                     *)
(***************************************************************************)
\* the bytes of an identifier or event IO: 2 for command 68, else 1
IDWidth(cmd) == IF cmd = 68 THEN 2 ELSE 1

\* the big-endian value of bytes [at, at+n) of d
WireValue(d, at, n) ==
    IF n = 1 THEN d[at + 1]
    ELSE IF n = 2 THEN Uint16(SubSeq(d, at + 1, at + 2))
    ELSE Uint32(SubSeq(d, at + 1, at + 4))

\* the end of an element group of width class w that starts at pos: one
\* count byte c_w, then c_w times an identifier and w value bytes
GroupEnd(d, cmd, pos, w) == pos + 1 + d[pos + 1] * (IDWidth(cmd) + w)

\* the start of the i-th element group of the record at off (i = 5: the end
\* of the record)
RECURSIVE GroupStart(_, _, _, _)
GroupStart(d, cmd, off, i) ==
    IF i = 1 THEN off + (IF cmd = 68 THEN 25 ELSE 23)
    ELSE GroupEnd(d, cmd, GroupStart(d, cmd, off, i - 1), Sizes[i - 1])

\* the elements the group at pos declares
GroupElements(d, cmd, pos, w) ==
    [ i \in 1..d[pos + 1] |->
        LET at == pos + 1 + (i - 1) * (IDWidth(cmd) + w)
        IN  [ Size |-> w,
              ID |-> WireValue(d, at, IDWidth(cmd)),
              Value |-> hexEncodeUpper(SubSeq(d, at + IDWidth(cmd) + 1,
                                              at + IDWidth(cmd) + w)) ] ]

\* the start of the k-th record of the buffer
RECURSIVE RecordStart(_, _, _)
RecordStart(d, cmd, k) ==
    IF k = 1 THEN 13
    ELSE GroupStart(d, cmd, RecordStart(d, cmd, k - 1), 5)

\* the record that the layout of C19 puts at off
WireRecord(d, cmd, off) ==
    LET e == IF cmd = 68 THEN 1 ELSE 0
    IN  [ Timestamp |-> WireValue(d, off, 4),
          TimestampExtension |-> WireValue(d, off + 4, 1),
          RecordExtension |-> IF cmd = 68 THEN << WireValue(d, off + 5, 1) >>
                              ELSE << >>,
          Priority |-> WireValue(d, off + 5 + e, 1),
          Longitude |-> Int32(WireValue(d, off + 6 + e, 4)),
          Latitude |-> Int32(WireValue(d, off + 10 + e, 4)),
          Altitude |-> Int16(WireValue(d, off + 14 + e, 2)),
          Angle |-> WireValue(d, off + 16 + e, 2),
          Satellites |-> WireValue(d, off + 18 + e, 1),
          Speed |-> WireValue(d, off + 19 + e, 2),
          HDOP |-> WireValue(d, off + 21 + e, 1),
          EventIO |-> WireValue(d, off + 22 + e, IDWidth(cmd)),
          IOElements |->
                 GroupElements(d, cmd, GroupStart(d, cmd, off, 1), 1)
              \o GroupElements(d, cmd, GroupStart(d, cmd, off, 2), 2)
              \o GroupElements(d, cmd, GroupStart(d, cmd, off, 3), 4)
              \o GroupElements(d, cmd, GroupStart(d, cmd, off, 4), 8) ]

\* the bytes of the record at off by the count of C19
CountedSize(d, cmd, off) ==
    (IF cmd = 68 THEN 29 ELSE 27)
      + d[GroupStart(d, cmd, off, 1) + 1] * (IDWidth(cmd) + 1)
      + d[GroupStart(d, cmd, off, 2) + 1] * (IDWidth(cmd) + 2)
      + d[GroupStart(d, cmd, off, 3) + 1] * (IDWidth(cmd) + 4)
      + d[GroupStart(d, cmd, off, 4) + 1] * (IDWidth(cmd) + 8)

\* C19: after a successful decode of a packet of command 1 or 68 the
\* cursor stands behind 13 header bytes and, for every record, 27 (command
\* 1) or 29 (command 68) bytes plus c_w times an identifier and w value
\* bytes for every width class w; every record is what the fixed field
\* order and the four element groups in the order 1, 2, 4, 8 give.
C19_BytesConsumed ==
    \A c \in Calls :
        (Succeeded(c) /\ ret[c].pkt.CommandID \in { 1, 68 }) =>
            LET p == ret[c].pkt
                d == data[c]
            IN  /\ idx[c] = RecordStart(d, p.CommandID, Len(p.Records) + 1)
                /\ idx[c] <= Len(d)
                /\ \A k \in 1..Len(p.Records) :
                     LET off == RecordStart(d, p.CommandID, k)
                     IN  /\ RecordStart(d, p.CommandID, k + 1)
                              = off + CountedSize(d, p.CommandID, off)
                         /\ p.Records[k] = WireRecord(d, p.CommandID, off)

\* a packet of command 68 with two records was decoded, each of them with
\* elements in three width classes
C19_Witness ==
    \E c \in Calls :
        /\ Succeeded(c)
        /\ ret[c].pkt.CommandID = 68
        /\ Len(ret[c].pkt.Records) = 2
        /\ Len(ret[c].pkt.Records[1].IOElements) = 4
        /\ idx[c] = 13 + 2 * (29 + 2 * 3 + 6 + 10)

\* C20: in a returned packet a record has a RecordExtension exactly when
\* the command is 68, and for command 1 the EventIO of every record and the
\* identifier of every element is at most 255.
C20_ExtensionAndWidths ==
    \A c \in Calls :
        Succeeded(c) =>
            LET p == ret[c].pkt
            IN  \A k \in 1..Len(p.Records) :
                    /\ (p.Records[k].RecordExtension # << >>) <=> (p.CommandID = 68)
                    /\ Len(p.Records[k].RecordExtension) <= 1
                    /\ p.CommandID = 1 =>
                          /\ p.Records[k].EventIO \in 0..255
                          /\ \A i \in 1..Len(p.Records[k].IOElements) :
                                p.Records[k].IOElements[i].ID \in 0..255

\* a record of command 1 with elements was decoded: it has no
\* RecordExtension and its event IO is the single byte of the buffer
C20_Witness ==
    \E c \in Calls :
        /\ Succeeded(c)
        /\ ret[c].pkt.CommandID = 1
        /\ Len(ret[c].pkt.Records) >= 1
        /\ ret[c].pkt.Records[1].RecordExtension = << >>
        /\ ret[c].pkt.Records[1].EventIO = 200
        /\ Len(ret[c].pkt.Records[1].IOElements) >= 1

(***************************************************************************)
(* The element list of a record.                                           *)
(***************************************************************************)
\* the uppercase hexadecimal digit of a nibble
UpperDigit(n) == SubSeq("0123456789ABCDEF", n + 1, n + 1)

\* the declared count of the i-th element group of the record at off
DeclaredCount(d, cmd, off, i) == d[GroupStart(d, cmd, off, i) + 1]

\* the number of elements the groups before the i-th one declare
RECURSIVE DeclaredBefore(_, _, _, _)
DeclaredBefore(d, cmd, off, i) ==
    IF i = 1 THEN 0
    ELSE DeclaredBefore(d, cmd, off, i - 1) + DeclaredCount(d, cmd, off, i - 1)

\* the string v spells the w bytes of d behind offset at, two uppercase
\* hexadecimal characters a byte
SpellsBytes(v, d, at, w) ==
    /\ Len(v) = 2 * w
    /\ \A m \in 1..w :
          /\ SubSeq(v, 2 * m - 1, 2 * m - 1) = UpperDigit(d[at + m] \div 16)
          /\ SubSeq(v, 2 * m, 2 * m) = UpperDigit(d[at + m] % 16)

\* C21: the IOElements of a returned record are the groups of the width
\* classes 1, 2, 4 and 8 in this order, each with as many elements as its
\* count byte declares and in the order of the buffer; Size is one of 1, 2,
\* 4, 8 and never decreases along the list; Value has 2*Size uppercase
\* hexadecimal characters that spell the element's value bytes in the
\* order of the buffer.
C21_ElementsGrouped ==
    \A c \in Calls :
        (Succeeded(c) /\ ret[c].pkt.CommandID \in { 1, 68 }) =>
            LET p == ret[c].pkt
                d == data[c]
                cmd == ret[c].pkt.CommandID
            IN  \A k \in 1..Len(p.Records) :
                    LET off == RecordStart(d, cmd, k)
                        els == p.Records[k].IOElements
                    IN  /\ Len(els) = DeclaredBefore(d, cmd, off, 5)
                        /\ \A i \in 1..Len(els) : els[i].Size \in { 1, 2, 4, 8 }
                        /\ \A i \in 1..(Len(els) - 1) : els[i].Size <= els[i + 1].Size
                        /\ \A g \in 1..4 :
                             \A i \in 1..DeclaredCount(d, cmd, off, g) :
                               LET el == els[DeclaredBefore(d, cmd, off, g) + i]
                                   at == GroupStart(d, cmd, off, g) + 1
                                           + (i - 1) * (IDWidth(cmd) + Sizes[g])
                               IN  /\ el.Size = Sizes[g]
                                   /\ el.ID = WireValue(d, at, IDWidth(cmd))
                                   /\ SpellsBytes(el.Value, d, at + IDWidth(cmd),
                                                  Sizes[g])

\* a record with two elements of width 1, none of width 2 and one each of
\* widths 4 and 8 was decoded; the value of its last element has 16
\* characters with letters among them
C21_Witness ==
    \E c \in Calls :
        /\ Succeeded(c)
        /\ Len(ret[c].pkt.Records) >= 1
        /\ Len(ret[c].pkt.Records[1].IOElements) = 4
        /\ ret[c].pkt.Records[1].IOElements[2].Size = 1
        /\ ret[c].pkt.Records[1].IOElements[3].Size = 4
        /\ ret[c].pkt.Records[1].IOElements[4].Size = 8
        /\ ret[c].pkt.Records[1].IOElements[4].Value = "BBBCBDBEBFC0C1C2"

(***************************************************************************)
(* Short reads inside a record.                                            *)
(***************************************************************************)
\* the positions of the record loop that call readBytes
RecordReadPositions ==
    ReadPositions \ { "length", "imei", "cmd", "flag", "numrec" }

\* the message of the ParseError that follows a failed read at position at
FieldMessage(at) ==
    CASE at = "timestamp" -> "failed to read timestamp for record %d: %v"
      [] at = "tsext" -> "failed to read timestamp extension for record %d: %v"
      [] at = "rext" -> "failed to read record extension for record %d: %v"
      [] at = "priority" -> "failed to read priority for record %d: %v"
      [] at = "lon" -> "failed to read longitude for record %d: %v"
      [] at = "lat" -> "failed to read latitude for record %d: %v"
      [] at = "alt" -> "failed to read altitude for record %d: %v"
      [] at = "angle" -> "failed to read angle for record %d: %v"
      [] at = "sat" -> "failed to read satellites for record %d: %v"
      [] at = "speed" -> "failed to read speed for record %d: %v"
      [] at = "hdop" -> "failed to read HDOP for record %d: %v"
      [] at = "eventio" -> "failed to read event IO for record %d: %v"
      [] at = "iocount" -> "failed to read IO count for record %d, size %d: %v"
      [] at = "ioid" ->
           "failed to read IO ID for record %d, size %d, element %d: %v"
      [] at = "ioval" ->
           "failed to read IO value byte %d for record %d, size %d, element %d: %v"
      [] OTHER -> ""

\* the place of the record index among the arguments of the message
RecordIndexPlace(at) == IF at = "ioval" THEN 2 ELSE 1

\* the offset of a fixed field from the start of its record
FieldOffset(at, cmd) ==
    LET e == IF cmd = 68 THEN 1 ELSE 0
    IN  CASE at = "timestamp" -> 0
          [] at = "tsext" -> 4
          [] at = "rext" -> 5
          [] at = "priority" -> 5 + e
          [] at = "lon" -> 6 + e
          [] at = "lat" -> 10 + e
          [] at = "alt" -> 14 + e
          [] at = "angle" -> 16 + e
          [] at = "sat" -> 18 + e
          [] at = "speed" -> 19 + e
          [] at = "hdop" -> 21 + e
          [] at = "eventio" -> 22 + e

\* the bytes of the buffer before the read that call c is about to make,
\* counted from the buffer: the header, the records decoded so far and the
\* fields, groups, elements and value bytes of the current record
ConsumedBefore(c) ==
    LET d == data[c]
        cmd == pkt[c].CommandID
        off == RecordStart(d, cmd, Len(pkt[c].Records) + 1)
        w == Sizes[size[c]]
        group == GroupStart(d, cmd, off, size[c])
        element == group + 1 + j[c] * (IDWidth(cmd) + w)
    IN  CASE pc[c] = "iocount" -> group
          [] pc[c] = "ioid" -> element
          [] pc[c] = "ioval" -> element + IDWidth(cmd) + b[c]
          [] OTHER -> off + FieldOffset(pc[c], cmd)

\* C22: a read of a record field or of an element that falls short ends
\* the call with a ParseError whose message is the one of that field, whose
\* arguments hold the index of the record, and whose Offset is the cursor
\* offset of the failed read, which is the number of bytes consumed so far.
C22_ShortReadReported ==
    [][\A c \in Calls :
         (/\ pc[c] \in RecordReadPositions
          /\ Steps(c)
          /\ idx[c] + ReadSize(c) > Len(data[c])) =>
              /\ pc'[c] = "returned"
              /\ ret'[c].pktNil
              /\ ret'[c].err.type = "ParseError"
              /\ ret'[c].err.Message = FieldMessage(pc[c])
              /\ ret'[c].err.Args[RecordIndexPlace(pc[c])] = rec[c]
              /\ rec[c] = Len(pkt[c].Records)
              /\ ret'[c].err.Offset = idx[c]
              /\ ret'[c].err.Offset = ConsumedBefore(c)
      ]_vars

\* the read of the eighth value byte of an element of the second record
\* fell short: the seven bytes before it stay counted
C22_Witness ==
    \E c \in Calls :
        /\ ReturnedError(c, "ParseError")
        /\ ret[c].err.Message = FieldMessage("ioval")
        /\ ret[c].err.Args[1] = 7
        /\ ret[c].err.Args[2] = 1
        /\ ret[c].err.Offset = Len(data[c])
        /\ ret[c].err.Offset > 13

(***************************************************************************)
(* Termination.                                                            *)
(***************************************************************************)
\* the first read of an iteration of the record loop (line 329), of the
\* width-class loop (line 487), of the element loop (line 508) and of the
\* value-byte loop (line 532)
LoopHeads == { "timestamp", "iocount", "ioid", "ioval" }

\* C23: every decode call ends, under every policy; the read at the head of
\* an iteration of each of the four loops advances the offset by at least
\* one byte or ends the call with an error, and the offset never exceeds
\* the buffer length.
C23_Terminates ==
    /\ <>(\A c \in Calls : Ended(c))
    /\ [][\A c \in Calls :
            /\ (pc[c] \in LoopHeads /\ Steps(c)) =>
                  \/ idx'[c] >= idx[c] + 1
                  \/ pc'[c] = "returned" /\ ret'[c].pktNil
            /\ idx'[c] <= Len(data'[c])
         ]_vars

\* a call under SkipValidation has gone through all four loops and returned
C23_Witness ==
    \E c \in Calls :
        /\ Succeeded(c)
        /\ O(c).SkipValidation
        /\ Len(ret[c].pkt.Records) = 2
        /\ Len(ret[c].pkt.Records[2].IOElements) = 4

(***************************************************************************)
(* The identifier codec.                                                   *)
(***************************************************************************)
\* the 16 nibbles of eight bytes, high nibble before low nibble
Nibbles(bcd) ==
    [ k \in 1..16 |-> IF k % 2 = 1 THEN bcd[(k + 1) \div 2] \div 16
                                   ELSE bcd[k \div 2] % 16 ]

\* value*10 + n on a number written as << high, low >> with low below 10^8
\* (a number below 10^17 keeps both halves below 2^31)
DecimalMulAdd(v, n) ==
    << v[1] * 10 + ((v[2] * 10 + n) \div 100000000),
       (v[2] * 10 + n) % 100000000 >>

\* the fold of the first k nibbles, left to right
RECURSIVE FoldNibbles(_, _)
FoldNibbles(ns, k) ==
    IF k = 0 THEN << 0, 0 >>
    ELSE DecimalMulAdd(FoldNibbles(ns, k - 1), ns[k])

\* the n low decimal digits of a number below 10^8, most significant first
DigitsOf(x, n) ==
    [ k \in 1..n |-> (x \div (10 ^ (n - k))) % 10 ]

\* the 17 decimal digits of << high, low >>
DecimalOfPair(v) == DigitsOf(v[1], 9) \o DigitsOf(v[2], 8)

\* a 64-bit number of four 16-bit limbs divided by 10: quotient, remainder
Div10(v) ==
    LET t1 == v[1]
        t2 == (t1 % 10) * 65536 + v[2]
        t3 == (t2 % 10) * 65536 + v[3]
        t4 == (t3 % 10) * 65536 + v[4]
    IN  [ q |-> << t1 \div 10, t2 \div 10, t3 \div 10, t4 \div 10 >>,
          r |-> t4 % 10 ]

\* the n low decimal digits of a 64-bit number, most significant first
RECURSIVE DecimalOfLimbs(_, _)
DecimalOfLimbs(v, n) ==
    IF n = 0 THEN << >>
    ELSE DecimalOfLimbs(Div10(v).q, n - 1) \o << Div10(v).r >>

\* the bytes of 16 decimal digits, two digits a byte
BytesOfDigits(ds) == [ i \in 1..8 |-> ds[2 * i - 1] * 16 + ds[2 * i] ]

\* C24: decodeIMEI returns the fold value = value*10 + nibble of the 16
\* nibbles, left to right and high nibble before low nibble, computed
\* without wrap-around of the 64-bit accumulator (also with nibbles of 10
\* to 15); when every nibble is a decimal digit, the 16 decimal digits of
\* the result are the nibbles, so the result gives back the input bytes.
C24_IdentifierFold ==
    fn.pc = "returned" =>
        /\ fn.imei = decodeIMEI(fn.bcd)
        /\ DecimalOfLimbs(fn.imei, 20)
             = << 0, 0, 0 >> \o DecimalOfPair(FoldNibbles(Nibbles(fn.bcd), 16))
        /\ (\A k \in 1..16 : Nibbles(fn.bcd)[k] <= 9) =>
              /\ DecimalOfLimbs(fn.imei, 16) = Nibbles(fn.bcd)
              /\ BytesOfDigits(DecimalOfLimbs(fn.imei, 16)) = fn.bcd

\* the identifier of eight bytes 0xFF was decoded: 16666666666666665, the
\* largest result there is
C24_Witness ==
    /\ fn.pc = "returned"
    /\ fn.bcd = [ i \in 1..8 |-> 255 ]
    /\ DecimalOfLimbs(fn.imei, 17)
         = << 1, 6, 6, 6, 6, 6, 6, 6, 6, 6, 6, 6, 6, 6, 6, 6, 5 >>

(***************************************************************************)
(* The end of the checksummed region.                                      *)
(***************************************************************************)
\* C25: with the checksum validated, when the declared length plus 2 is
\* within the buffer, the checksum is computed over the bytes
\* [2, 2+declared_length): the end index is 2 + declared_length, not that
\* sum modulo 2^16, so the slice is taken (no panic) and the packet is
\* rejected on "crc" exactly when that region's CRC16 differs from the
\* final two bytes.
C25_RegionEndNotWrapped ==
    \A c \in Calls :
        ( /\ Decoded(c)
          /\ pc[c] \notin { "size", "length", "crc" }
          /\ CRCValidated(c)
          /\ ~Rejected(c, "packet_size")
          /\ ~Rejected(c, "packet_length")
          /\ DeclaredLength(data[c]) + 2 <= Len(data[c]) ) =>
            /\ pc[c] # "panicked"
            /\ crcEnd(DeclaredLength(data[c])) = 2 + DeclaredLength(data[c])
            /\ Rejected(c, "crc")
                 <=> TrailingCRC(data[c]) # CRC16CCITT(CRCRegion(data[c]))

(***************************************************************************)
(* The checksum bytes and the cursor.                                      *)
(***************************************************************************)
\* C26: after a successful decode the cursor is at most at len(data) - 2:
\* the final two bytes, which were read as the packet's CRC, are not read
\* as payload.
C26_ChecksumNotPayload ==
    \A c \in Calls :
        Succeeded(c) => idx[c] <= Len(data[c]) - 2

(***************************************************************************)
(* The processor.                                                          *)
(***************************************************************************)
\* Process has returned an error and no messages
ProcessFailed == fn.err # "" /\ fn.batch = << >>

\* C27: Process returns, and it returns an error and no messages when the
\* trimmed body is empty or the decoder returns an error; otherwise it
\* returns no error and a batch: one message of the whole packet without
\* batch_mode, and with batch_mode one message per record in the order of
\* the records, or one packet-info message when there is no record.
C27_ProcessBatch ==
    /\ fn.pc # "panicked"
    /\ fn.pc = "returned" =>
          IF TrimSpace(fn.msg) = "" THEN ProcessFailed /\ Calls = {}
          ELSE IF ret[1].pktNil THEN ProcessFailed
          ELSE /\ fn.err = ""
               /\ ~fn.batchMode =>
                     /\ Len(fn.batch) = 1
                     /\ fn.batch[1] = [ packet |-> ret[1].pkt ]
               /\ (fn.batchMode /\ ret[1].pkt.Records = << >>) =>
                     /\ Len(fn.batch) = 1
                     /\ fn.batch[1] = [ IMEI |-> ret[1].pkt.IMEI,
                                        COMMAND_ID |-> ret[1].pkt.CommandID ]
               /\ (fn.batchMode /\ ret[1].pkt.Records # << >>) =>
                     /\ Len(fn.batch) = Len(ret[1].pkt.Records)
                     /\ \A i \in 1..Len(fn.batch) :
                           fn.batch[i].fields = ret[1].pkt.Records[i]

(***************************************************************************)
(* Calls side by side.                                                     *)
(***************************************************************************)
\* everything a call reads and writes: its arguments, its local variables,
\* its position and what it returns
Local(c) ==
    << hexStr[c], opts[c], data[c], idx[c], pkt[c], rec[c], r[c], size[c],
       ioCount[c], j[c], ioID[c], b[c], ioValBytes[c], pc[c], ret[c] >>

\* C28: calls side by side share no mutable state: a step of one call
\* leaves everything of the other calls as it is, and whatever the
\* interleaving, a call ends as the same call ends that ran alone: calls 1
\* and 3, the same call made twice, end in the same way with the same
\* result, whatever call 2 does in between.
C28_CallsIndependent ==
    [][/\ \E c \in Calls : \A k \in Calls \ {c} : Local(k)' = Local(k)
       /\ (Ended(1)' /\ Ended(3)') =>
             /\ pc'[1] = pc'[3]
             /\ ret'[1] = ret'[3]
             /\ Local(1)' = Local(3)'
      ]_vars

\* the same call made twice has returned the same packet with a record,
\* while another call on another input is in the middle of a record
C28_Witness ==
    /\ Succeeded(1)
    /\ Succeeded(3)
    /\ ret[1] = ret[3]
    /\ Len(ret[1].pkt.Records) = 1
    /\ hexStr[2] # hexStr[1]
    /\ pc[2] = "lon"

(***************************************************************************)
(* The check digit of an IMEI.                                             *)
(***************************************************************************)
IsDecimal(s) ==
    \A i \in 1..Len(s) :
       \E d \in 1..10 : SubSeq(s, i, i) = DecimalDigits[d]

DecimalValue(ch) == CHOOSE d \in 0..9 : DecimalDigits[d + 1] = ch

\* the Luhn sum of the last n digits of a decimal string: from the right,
\* every second digit is doubled, and the digits of the product are added
RECURSIVE LuhnSum(_, _)
LuhnSum(s, n) ==
    IF n = 0 THEN 0
    ELSE LET d == DecimalValue(SubSeq(s, Len(s) - n + 1, Len(s) - n + 1))
         IN  (IF n % 2 = 0 THEN ((2 * d) \div 10) + ((2 * d) % 10) ELSE d)
                + LuhnSum(s, n - 1)

PassesLuhn(s) == IsDecimal(s) /\ LuhnSum(s, Len(s)) % 10 = 0

\* C29: for a string of 14 decimal digits calculateCheckDigit returns one
\* decimal digit, and EncodeIMEI pads the 15 digits that pass the Luhn
\* validation; a string of any other length is padded as it is.
C29_CheckDigit ==
    fn.pc = "returned" =>
       /\ (Len(fn.imei) = 14 /\ IsDecimal(fn.imei)) =>
             /\ Len(fn.check) = 1
             /\ IsDecimal(fn.check)
             /\ fn.fullIMEI = fn.imei \o fn.check
             /\ Len(fn.fullIMEI) = 15
             /\ PassesLuhn(fn.fullIMEI)
             /\ fn.out = SprintfIMEI(fn.fullIMEI)
       /\ Len(fn.imei) # 14 =>
             /\ fn.fullIMEI = fn.imei
             /\ fn.out = SprintfIMEI(fn.imei)

\* the same for the strings whose Luhn sum is no multiple of 10
C29_CheckDigitNonZero ==
    (fn.pc = "returned" /\ fn.sum % 10 # 0) =>
       /\ (Len(fn.imei) = 14 /\ IsDecimal(fn.imei)) =>
             /\ Len(fn.check) = 1
             /\ PassesLuhn(fn.fullIMEI)
             /\ Len(fn.out) = subjectLenth
       /\ Len(fn.imei) # 14 => fn.fullIMEI = fn.imei

\* the check digit computed is 10 and is written with two characters
C29_TwoCharacters ==
    /\ fn.pc = "returned"
    /\ Len(fn.imei) = 14
    /\ IsDecimal(fn.imei)
    /\ fn.check = "10"
    /\ Len(fn.fullIMEI) = 16

(***************************************************************************)
(* The resolution of the h3 functions.                                     *)
(***************************************************************************)
\* C30: each h3 function that takes a resolution returns the error
\* "resolution should be between 0 and 15" for every resolution outside
\* 0..15, negative or above 15, before any cell computation is made.
C30_ResolutionChecked ==
    (fn.pc # "resolution" /\ ~(fn.resolution \in 0..15)) =>
       /\ fn.pc = "returned"
       /\ fn.err = "resolution should be between 0 and 15"
       /\ fn.calls = << >>

\* the same for the negative resolutions alone
C30_NegativeRefused ==
    (fn.pc # "resolution" /\ fn.resolution < 0) =>
       /\ fn.pc = "returned"
       /\ fn.err = "resolution should be between 0 and 15"
       /\ fn.calls = << >>

\* a resolution above 15 has been handed to the library
C30_ComputedAbove ==
    /\ fn.pc = "returned"
    /\ fn.resolution > 15
    /\ fn.err = ""
    /\ \E i \in 1..Len(fn.calls) :
          fn.calls[i].call \in { "LatLngToCell", "Parent" }

====
